---- MODULE Spec2Model ----
(***************************************************************************)
(* The client-side synchronization engine of the whiteboard               *)
(* (ExcalidrawWrapper, src/app/board/[slug]/page.tsx): change detection,   *)
(* debounced persistence with backoff retry, the offline retry queue,      *)
(* broadcast throttling, the last-write-wins merge, the realtime channel   *)
(* (status callback, re-fetch sync, scene-update handler, presence).        *)
(*                                                                         *)
(* One board view (one tab) is modelled.  Time is kept as the remaining    *)
(* delay of each pending timer; Tick lets BackoffBaseMs (1 s) pass.  The   *)
(* 50 ms broadcast throttle window closes between two ticks.               *)
(***************************************************************************)
EXTENDS Integers, Sequences, FiniteSets, TLC

-----------------------------------------------------------------------------
(* Bounds of the model *)
MaxEvents == 2        \* change events emitted by the canvas
MaxFailures == 1      \* failed store writes
MaxDrains == 1        \* drains of the retry queue
MaxChainEvents == 2   \* change events, where the retry chain is followed to its end
MaxChainFailures == 4 \* failed store writes, where the retry chain is followed to its end
MaxElems == 2         \* element ids in the engine's scene
MaxVersion == 3       \* highest element version in the engine's scene
MaxMergeVersion == 2  \* highest element version of the merge inputs
MaxMergeId == 2       \* element ids of the merge inputs
MaxMergeLen == 2      \* length of a merge input
MaxStimuli == 4       \* change events, status callbacks, peer actions and throwing
                      \* applies together, where the channel is followed
MaxUsers == 2         \* user identities on the board's channel
MaxTabs == 2          \* presence keys (tabs, connections) and tracked metas
MaxLifeEvents == 1    \* change events, where the view's life is followed

(* Program constants *)
SAVE_DEBOUNCE_MS == 5000
MAX_RETRIES == 3
MAX_ELEMENTS == 5000
BROADCAST_DEBOUNCE_MS == 50
BackoffBaseMs == 1000
GuardResetMs == 100

-----------------------------------------------------------------------------
VARIABLES
  elements,             \* the canvas editor's scene elements
  viewState,            \* the canvas editor's appState (zoom stands for pan/zoom/tool)
  currentElementsRef,
  currentAppStateRef,
  lastSavedElementsRef, \* the last-saved baseline
  isDirty,
  isSaving,
  isOnline,             \* the UI's online flag
  navOnline,            \* navigator.onLine
  retryQueueRef,        \* in-memory retry queue
  storedQueue,          \* localStorage[RETRY_QUEUE_KEY]: the text, <<>> also when no item is set
  toasts,               \* kinds of the notifications shown
  debounce,             \* the pending call of debouncedSave, or NoTimer
  backoffTimers,        \* pending setTimeout retries of saveToDb
  inflight,             \* updateBoard calls awaiting their result
  db,                   \* the durable board record
  sinceBroadcast,       \* Date.now() - lastBroadcastRef, saturated at the window
  broadcastTimeoutRef,  \* TRUE while the throttled broadcast timer is pending
  sent,                 \* broadcasts sent: their number, how many by the throttle timer, the last payload
  nEvents,              \* change events so far
  nFail,                \* failed store writes so far
  drains,               \* one record per drain started (history)
  offlined,             \* numbers of the payloads whose save was attempted offline (history)
  limits,               \* how many events, failures and drains the environment produces
  mLocal, mRemote, mOut, mPhase,  \* inputs and output of a merge
  excalidrawRef,        \* TRUE once the canvas has handed over its API
  isApplyingRemoteUpdateRef,
  guardTimers,          \* remaining delays of the pending resets of isApplyingRemoteUpdateRef
  echoPending,          \* the canvas has an onChange to emit for an updateScene
  lastApplied,          \* the elements of the last updateScene (history)
  previousStatusRef,    \* "none" for null
  fetching,             \* getBoard calls of syncFromDatabase awaiting their result
  inbox,                \* scene-update messages the channel is to deliver to this tab
  lastRecv,             \* sender of the last scene-update delivered (history)
  everSubscribed,       \* the channel has reported SUBSCRIBED since mount (history)
  nSync,                \* calls of syncFromDatabase so far (history)
  nStatus,              \* status callbacks so far
  nPeer,                \* actions of the peer so far
  nThrow,               \* scene applies that threw so far
  presenceState,        \* channel.presenceState(): per presence key, its metas
  onlineUsers,
  view,                 \* the board view: "constructed", "mounted" (effects run), "unmounted"
  channelRef,           \* TRUE while the view holds its subscribed channel
  hasError,
  errorMessage,         \* "null", or the kind of the error shown
  initialDataRef,       \* [set |-> FALSE] for null, or the scene kept for the canvas
  initialElements,      \* props of the view
  initialAppState,
  authUser,             \* the session's user (auth.getUser()): its id, 0 when anonymous
  board,                \* the row of the boards table the slug selects, if it exists
  board_shares,         \* the users the board is shared with
  result,               \* what getBoard returned to the session
  wrapper,              \* what BoardPage rendered
  publicView,           \* the read-only view: "none", "rendered", "mounted" (effects run), "unmounted"
  publicExcalidrawRef,  \* TRUE once the read-only canvas has handed over its API
  publicScene,          \* the read-only canvas's scene elements
  pollTimers,           \* remaining delays of the poll effect's timeout and interval, NoDelay when none
  polls,                \* getBoard calls of pollForUpdates awaiting their result
  sinceMount,           \* time since the read-only view's effects ran (history)
  nPolls                \* calls of pollForUpdates so far (history)

engineVars == <<elements, viewState, currentElementsRef, currentAppStateRef,
                lastSavedElementsRef, isDirty, isSaving, isOnline, navOnline,
                retryQueueRef, storedQueue, toasts, debounce, backoffTimers,
                inflight, db, sinceBroadcast, broadcastTimeoutRef, sent,
                nEvents, nFail, drains, offlined, limits>>
mergeVars == <<mLocal, mRemote, mOut, mPhase>>
guardVars == <<isApplyingRemoteUpdateRef, guardTimers, echoPending, lastApplied>>
channelVars == <<excalidrawRef, previousStatusRef, fetching, lastRecv, everSubscribed,
                 nSync, nStatus, nPeer, nThrow>>
presenceVars == <<presenceState, onlineUsers>>
remoteVars == <<guardVars, channelVars, inbox, presenceVars>>
pageVars == <<view, channelRef, hasError, errorMessage, initialDataRef, initialElements,
              initialAppState>>
viewerVars == <<publicView, publicExcalidrawRef, publicScene, pollTimers, polls,
                sinceMount, nPolls>>
accessVars == <<authUser, board, board_shares, result, wrapper, viewerVars>>
vars == <<engineVars, mergeVars, remoteVars, pageVars, accessVars>>

(* What the environment has done to the tab so far *)
Stimuli == nEvents + nStatus + nPeer + nThrow

NoTimer == [pending |-> FALSE]
NoSrc == [d |-> 0, i |-> 0]

-----------------------------------------------------------------------------
(* Elements.  x stands for the fields the change detector projects         *)
(* (geometry, text, style); version is not projected.                     *)
Elem(id, version, x) == [id |-> id, version |-> version, x |-> x, isDeleted |-> FALSE]

(* JSON.parse(JSON.stringify(elements)) *)
DeepCopy(els) ==
  [i \in 1..Len(els) |-> [id |-> els[i].id, version |-> els[i].version, x |-> els[i].x,
                           isDeleted |-> els[i].isDeleted]]

(* A value of a projected field that JSON.stringify throws on *)
Unserializable == -1

ProjectWithVersion(el) == <<el.id, el.x, el.version>>

(* The object an element is mapped to before the lists are serialized:     *)
(* id and the content fields; version and isDeleted are not among them     *)
Project(el) == <<el.id, el.x>>

(* Serializing the projections of a list throws *)
ProjectionFails(els) == \E i \in 1..Len(els) : els[i].x = Unserializable

(* elementsChanged: length check, then the serialized projections; a       *)
(* serialization that throws counts as changed                             *)
elementsChanged(newElements, oldElements) ==
  IF Len(newElements) # Len(oldElements)
  THEN TRUE
  ELSE IF ProjectionFails(newElements) \/ ProjectionFails(oldElements)
  THEN TRUE
  ELSE [i \in 1..Len(newElements) |-> Project(newElements[i])]
         # [i \in 1..Len(oldElements) |-> Project(oldElements[i])]

(* An appState is a set of <<key, value>> pairs; {} is the empty object.    *)
(* The canvas always carries its collaborators Map.                        *)
AppState(zoom) == {<<"zoom", zoom>>, <<"collaborators", 0>>}

(* As filterSharedAppState, sharing the whole view-state *)
filterSharedAppStateAll(appState) == appState

(* filterSharedAppState: nothing of the view-state is shared *)
filterSharedAppState(appState) == {}

(* handleChange's sanitizedAppState: the collaborators Map is deleted *)
SanitizeForSave(appState) == {kv \in appState : kv[1] # "collaborators"}

-----------------------------------------------------------------------------
(* mergeElementsByLastWrite *)

(* getVersion: every element of the canvas has a numeric version, so the   *)
(* fallbacks (el.updated, 0) are not taken.                                *)
getVersion(el) == el.version

Ids(els) == {els[i].id : i \in 1..Len(els)}

(* remoteMap.get(id): the Map keeps the last element set under a key *)
RemoteGet(remoteElements, id) ==
  LET last == CHOOSE i \in 1..Len(remoteElements) :
                /\ remoteElements[i].id = id
                /\ \A j \in (i + 1)..Len(remoteElements) : remoteElements[j].id # id
  IN  remoteElements[last]

(* As PickNewer, without the version comparison: the local element is kept *)
PickLocal(localEl, remoteEl) == localEl

(* As PickNewer, with the remote element winning a tie *)
PickNewerOrEqual(localEl, remoteEl) ==
  IF getVersion(remoteEl) >= getVersion(localEl) THEN remoteEl ELSE localEl

(* The element kept for a local element that has a remote counterpart *)
PickNewer(localEl, remoteEl) ==
  IF getVersion(remoteEl) > getVersion(localEl) THEN remoteEl ELSE localEl

(* As ProcessLocal, without the else branch of the version comparison: a  *)
(* local element whose counterpart is not newer is not pushed              *)
RECURSIVE ProcessLocalNoElse(_, _, _)
ProcessLocalNoElse(localElements, remoteElements, deleted) ==
  IF localElements = <<>>
  THEN <<>>
  ELSE LET localEl == Head(localElements)
           inMap == localEl.id \in Ids(remoteElements) \ deleted
           remoteEl == RemoteGet(remoteElements, localEl.id)
       IN  IF inMap
           THEN (IF getVersion(remoteEl) > getVersion(localEl) THEN <<remoteEl>> ELSE <<>>)
                  \o ProcessLocalNoElse(Tail(localElements), remoteElements,
                                        deleted \cup {localEl.id})
           ELSE <<localEl>> \o ProcessLocalNoElse(Tail(localElements), remoteElements, deleted)

(* As ProcessLocal, with a local element that has no remote counterpart    *)
(* taken as deleted remotely and dropped                                   *)
RECURSIVE ProcessLocalDropLocalOnly(_, _, _)
ProcessLocalDropLocalOnly(localElements, remoteElements, deleted) ==
  IF localElements = <<>>
  THEN <<>>
  ELSE LET localEl == Head(localElements)
           inMap == localEl.id \in Ids(remoteElements) \ deleted
       IN  IF inMap
           THEN <<PickNewer(localEl, RemoteGet(remoteElements, localEl.id))>>
                  \o ProcessLocalDropLocalOnly(Tail(localElements), remoteElements,
                                               deleted \cup {localEl.id})
           ELSE ProcessLocalDropLocalOnly(Tail(localElements), remoteElements, deleted)

(* localElements.forEach: deleted holds the ids already removed from remoteMap *)
RECURSIVE ProcessLocal(_, _, _)
ProcessLocal(localElements, remoteElements, deleted) ==
  IF localElements = <<>>
  THEN <<>>
  ELSE LET localEl == Head(localElements)
           inMap == localEl.id \in Ids(remoteElements) \ deleted
       IN  IF inMap
           THEN <<PickNewer(localEl, RemoteGet(remoteElements, localEl.id))>>
                  \o ProcessLocal(Tail(localElements), remoteElements,
                                  deleted \cup {localEl.id})
           ELSE <<localEl>> \o ProcessLocal(Tail(localElements), remoteElements, deleted)

(* remoteMap.forEach after the local pass: the entries left, in the order  *)
(* their keys were first inserted, that are not in processedIds.  Where no *)
(* id occurs twice every entry is the first and the last of its key, and   *)
(* the pass keeps the elements whose id is not in processedIds.            *)
RECURSIVE RemoteRest(_, _, _)
RemoteRest(remoteElements, i, processedIds) ==
  IF i > Len(remoteElements)
  THEN <<>>
  ELSE IF i = 1 /\ Cardinality(Ids(remoteElements)) = Len(remoteElements)
  THEN SelectSeq(remoteElements, LAMBDA el : el.id \notin processedIds)
  ELSE LET id == remoteElements[i].id
           first == \A j \in 1..(i - 1) : remoteElements[j].id # id
       IN  (IF first /\ id \notin processedIds
            THEN <<RemoteGet(remoteElements, id)>>
            ELSE <<>>) \o RemoteRest(remoteElements, i + 1, processedIds)

mergeElementsByLastWrite(localElements, remoteElements) ==
  ProcessLocal(localElements, remoteElements, {})
    \o RemoteRest(remoteElements, 1, Ids(localElements))

UniqueIds(els) == \A i, j \in 1..Len(els) : els[i].id = els[j].id => i = j

(* Element lists with unique ids (the canvas keeps ids unique), their      *)
(* contents drawn from xs                                                  *)
MergeLists(xs) ==
  LET elems == {Elem(id, v, x) : id \in 1..MaxMergeId, v \in 1..MaxMergeVersion, x \in xs}
  IN  UNION {{els \in [1..n -> elems] : UniqueIds(els)} : n \in 0..MaxMergeLen}

-----------------------------------------------------------------------------
(* saveToDb, processRetryQueue.  They act on the record s of the fields    *)
(* they read and write; Commit assigns the result.                         *)

Payload(els, appState, seq) == [elements |-> els, appState |-> appState, seq |-> seq]

(* RetryQueueItem; seq (history) numbers the change event the payload is of. *)
(* The timestamp is written and never read.                                *)
QueueItem(p, attempts) ==
  [elements |-> p.elements, appState |-> p.appState, attempts |-> attempts, seq |-> p.seq]

PayloadOf(item) == Payload(item.elements, item.appState, item.seq)

EngineState ==
  [q |-> retryQueueRef, stored |-> storedQueue, dirty |-> isDirty, saving |-> isSaving,
   infl |-> inflight, timers |-> backoffTimers, toasts |-> toasts,
   lastSaved |-> lastSavedElementsRef, db |-> db, drains |-> drains,
   offlined |-> offlined]

Commit(s) ==
  /\ retryQueueRef' = s.q
  /\ storedQueue' = s.stored
  /\ isDirty' = s.dirty
  /\ isSaving' = s.saving
  /\ inflight' = s.infl
  /\ backoffTimers' = s.timers
  /\ toasts' = s.toasts
  /\ lastSavedElementsRef' = s.lastSaved
  /\ db' = s.db
  /\ drains' = s.drains
  /\ offlined' = s.offlined

(* JSON.stringify(retryQueueRef.current): the text of an array of objects, *)
(* each object the list of its property values, each element likewise      *)
JSONStringify(queue) ==
  [i \in 1..Len(queue) |->
     <<[j \in 1..Len(queue[i].elements) |->
          <<queue[i].elements[j].id, queue[i].elements[j].version, queue[i].elements[j].x,
            queue[i].elements[j].isDeleted>>],
       queue[i].appState, queue[i].attempts, queue[i].seq>>]

(* As JSONParse, reading the array from its end *)
JSONParseReversed(text) ==
  [i \in 1..Len(text) |->
     LET item == text[Len(text) + 1 - i]
     IN  [elements |-> [j \in 1..Len(item[1]) |->
                          [Elem(item[1][j][1], item[1][j][2], item[1][j][3])
                             EXCEPT !.isDeleted = item[1][j][4]]],
          appState |-> item[2], attempts |-> item[3], seq |-> item[4]]]

(* JSON.parse(savedQueue) as RetryQueueItem[] *)
JSONParse(text) ==
  [i \in 1..Len(text) |->
     LET item == text[i]
     IN  [elements |-> [j \in 1..Len(item[1]) |->
                          [Elem(item[1][j][1], item[1][j][2], item[1][j][3])
                             EXCEPT !.isDeleted = item[1][j][4]]],
          appState |-> item[2], attempts |-> item[3], seq |-> item[4]]]

(* saveRetryQueue: localStorage.setItem(key, JSON.stringify(queue)) *)
saveRetryQueue(s) == [s EXCEPT !.stored = JSONStringify(s.q)]

addToast(s, kind) == [s EXCEPT !.toasts = @ \cup {kind}]

(* As BackoffDelay, growing linearly *)
BackoffDelayLinear(attempt) == BackoffBaseMs * (attempt + 1)

(* 1000 * Math.pow(2, attempt) *)
BackoffDelay(attempt) == BackoffBaseMs * (2 ^ attempt)

(* As SaveOffline, without the push onto the retry queue *)
SaveOfflineNoPush(s, p) ==
  LET s3 == [s EXCEPT !.dirty = TRUE, !.offlined = @ \cup {p.seq}]
  IN  addToast(s3, "offline")

(* As SaveOffline, with setIsSaving(true) ahead of the offline check *)
SaveOfflineSaving(s, p) ==
  LET s1 == [s EXCEPT !.saving = TRUE, !.q = Append(@, QueueItem(p, 0))]
      s2 == saveRetryQueue(s1)
      s3 == [s2 EXCEPT !.dirty = TRUE, !.offlined = @ \cup {p.seq}]
  IN  addToast(s3, "offline")

(* saveToDb, offline branch (offlined is history) *)
SaveOffline(s, p) ==
  LET s1 == [s EXCEPT !.q = Append(@, QueueItem(p, 0))]
      s2 == saveRetryQueue(s1)
      s3 == [s2 EXCEPT !.dirty = TRUE, !.offlined = @ \cup {p.seq}]
  IN  addToast(s3, "offline")

(* saveToDb up to its await: setIsSaving(true), updateBoard is called.     *)
(* kind, src and rest say who awaits the call: the drain loop with the     *)
(* entries still to process, or nobody.                                    *)
SaveOnline(s, p, attempt, kind, src, rest) ==
  [s EXCEPT !.saving = TRUE,
            !.infl = @ \cup {[p |-> p, attempt |-> attempt, kind |-> kind,
                              src |-> src, rest |-> rest]}]

saveToDb(s, online, p, attempt, kind, src, rest) ==
  IF ~online THEN SaveOffline(s, p)
  ELSE SaveOnline(s, p, attempt, kind, src, rest)

SaveSucceededPruning(s, r) ==
  LET s1 == [s EXCEPT !.db = [elements |-> r.p.elements, app_state |-> r.p.appState,
                               seq |-> r.p.seq],
                      !.dirty = FALSE,
                      !.saving = FALSE,
                      !.lastSaved = DeepCopy(r.p.elements),
                      !.q = SelectSeq(@, LAMBDA item : item.seq # r.p.seq)]
  IN  saveRetryQueue(s1)

(* saveToDb after a successful updateBoard *)
SaveSucceeded(s, r) ==
  LET s1 == [s EXCEPT !.db = [elements |-> r.p.elements, app_state |-> r.p.appState,
                               seq |-> r.p.seq],
                      !.dirty = FALSE,
                      !.saving = FALSE,
                      !.lastSaved = DeepCopy(r.p.elements)]
  IN  saveRetryQueue(s1)

(* As SaveFailed, without the ceiling: every failure re-queues the payload *)
(* with one more attempt and schedules a retry                             *)
SaveFailedPastCeiling(s, r) ==
  LET s0 == [s EXCEPT !.saving = FALSE]
      s1 == [s0 EXCEPT !.q = Append(@, QueueItem(r.p, r.attempt + 1))]
      s2 == saveRetryQueue(s1)
  IN  [s2 EXCEPT !.timers = @ \cup
         {[p |-> r.p, attempt |-> r.attempt + 1, delay |-> BackoffDelay(r.attempt),
           remaining |-> BackoffDelay(r.attempt), src |-> r.src]}]

(* saveToDb's catch branch *)
SaveFailed(s, r) ==
  LET s0 == [s EXCEPT !.saving = FALSE]
  IN  IF r.attempt < MAX_RETRIES
      THEN LET s1 == [s0 EXCEPT !.q = Append(@, QueueItem(r.p, r.attempt + 1))]
               s2 == saveRetryQueue(s1)
           IN  [s2 EXCEPT !.timers = @ \cup
                  {[p |-> r.p, attempt |-> r.attempt + 1, delay |-> BackoffDelay(r.attempt),
                    remaining |-> BackoffDelay(r.attempt), src |-> r.src]}]
      ELSE LET s1 == [s0 EXCEPT !.q = Append(@, QueueItem(r.p, r.attempt))]
               s2 == saveRetryQueue(s1)
               s3 == [s2 EXCEPT !.dirty = TRUE]
           IN  addToast(s3, "save-error")

(* History of the drains: which payloads drain d took and wrote, whether   *)
(* one of its saves failed or was taken offline, whether its loop is over. *)
NoteDrain(s, d, field, value) ==
  IF d = 0 THEN s ELSE [s EXCEPT !.drains[d][field] = value]

NoteWrote(s, r) ==
  IF r.src.d = 0 THEN s ELSE [s EXCEPT !.drains[r.src.d].wrote = @ \cup {r.p.seq}]

(* processRetryQueue's for loop from entry i of drain d on: each entry's   *)
(* saveToDb is awaited; an offline saveToDb returns at once and the loop   *)
(* goes on, an online one suspends the loop until updateBoard answers.     *)
RECURSIVE DrainLoop(_, _, _, _, _)
DrainLoop(s, online, items, d, i) ==
  IF items = <<>>
  THEN NoteDrain(s, d, "done", TRUE)
  ELSE LET item == Head(items)
           s1 == saveToDb(s, online, PayloadOf(item), item.attempts, "drain",
                          [d |-> d, i |-> i], Tail(items))
       IN  IF online THEN s1
           ELSE DrainLoop(NoteDrain(s1, d, "clean", FALSE), online, Tail(items), d, i + 1)

(* The copy of the queue that processRetryQueue iterates over *)
DrainCopy(q) == q

(* processRetryQueue *)
processRetryQueue(s, online) ==
  IF ~online \/ s.q = <<>>
  THEN s
  ELSE LET queue == DrainCopy(s.q)
           d == Len(s.drains) + 1
           s1 == [s EXCEPT !.q = <<>>,
                           !.drains = Append(@, [taken |-> [k \in 1..Len(s.q) |-> s.q[k].seq],
                                                 wrote |-> {}, clean |-> TRUE, done |-> FALSE])]
           s2 == saveRetryQueue(s1)
       IN  DrainLoop(s2, online, queue, d, 1)

(* The continuation of an answered updateBoard call: the drain loop that   *)
(* awaited it goes on with its next entry.                                 *)
Resume(s, online, r) ==
  IF r.kind = "drain" THEN DrainLoop(s, online, r.rest, r.src.d, r.src.i + 1) ELSE s

-----------------------------------------------------------------------------
(* Timers *)

(* The debounced callback fires SAVE_DEBOUNCE_MS after the last call of    *)
(* debouncedSave, with that call's arguments.                              *)
DebounceFire ==
  /\ debounce.pending /\ debounce.remaining = 0
  /\ Commit(saveToDb(EngineState, navOnline, debounce.args, 0, "debounce", NoSrc, <<>>))
  /\ debounce' = NoTimer
  /\ UNCHANGED <<elements, viewState, currentElementsRef, currentAppStateRef, isOnline,
                 navOnline, sinceBroadcast, broadcastTimeoutRef, sent, nEvents, nFail>>
  /\ UNCHANGED <<limits, mergeVars, pageVars, accessVars, remoteVars>>

(* A backoff timer of saveToDb fires: saveToDb(elements, appState, attempt + 1) *)
BackoffFire(t) ==
  /\ t.remaining = 0
  /\ Commit(saveToDb([EngineState EXCEPT !.timers = @ \ {t}], navOnline, t.p, t.attempt,
                     "retry", t.src, <<>>))
  /\ UNCHANGED <<elements, viewState, currentElementsRef, currentAppStateRef, isOnline,
                 navOnline, debounce, sinceBroadcast, broadcastTimeoutRef, sent, nEvents, nFail>>
  /\ UNCHANGED <<limits, mergeVars, pageVars, accessVars, remoteVars>>

(* updateBoard answers without error *)
WriteSuccess(r) ==
  /\ LET s1 == SaveSucceeded([EngineState EXCEPT !.infl = @ \ {r}], r)
     IN  Commit(Resume(NoteWrote(s1, r), navOnline, r))
  /\ UNCHANGED <<elements, viewState, currentElementsRef, currentAppStateRef, isOnline,
                 navOnline, debounce, sinceBroadcast, broadcastTimeoutRef, sent, nEvents, nFail>>
  /\ UNCHANGED <<limits, mergeVars, pageVars, accessVars, remoteVars>>

(* updateBoard answers with an error, or throws *)
WriteFail(r) ==
  /\ nFail < limits.failures
  /\ nFail' = nFail + 1
  /\ LET s1 == SaveFailed([EngineState EXCEPT !.infl = @ \ {r}], r)
     IN  Commit(Resume(NoteDrain(s1, r.src.d, "clean", FALSE), navOnline, r))
  /\ UNCHANGED <<elements, viewState, currentElementsRef, currentAppStateRef, isOnline,
                 navOnline, debounce, sinceBroadcast, broadcastTimeoutRef, sent, nEvents>>
  /\ UNCHANGED <<limits, mergeVars, pageVars, accessVars, remoteVars>>

-----------------------------------------------------------------------------
(* Network status *)

handleOffline ==
  /\ view = "mounted"
  /\ navOnline
  /\ navOnline' = FALSE
  /\ isOnline' = FALSE
  /\ UNCHANGED <<elements, viewState, currentElementsRef, currentAppStateRef,
                 lastSavedElementsRef, isDirty, isSaving, retryQueueRef, storedQueue, toasts,
                 debounce, backoffTimers, inflight, db, sinceBroadcast, broadcastTimeoutRef,
                 sent, nEvents, nFail, drains, offlined>>
  /\ UNCHANGED <<limits, mergeVars, pageVars, accessVars, remoteVars>>

(* The online event: setIsOnline(true), then the queue is drained if it is not empty *)
handleOnline ==
  /\ view = "mounted"
  /\ ~navOnline
  /\ retryQueueRef # <<>> => Len(drains) < limits.drains
  /\ navOnline' = TRUE
  /\ isOnline' = TRUE
  /\ Commit(IF Len(retryQueueRef) > 0 THEN processRetryQueue(EngineState, TRUE)
            ELSE EngineState)
  /\ UNCHANGED <<elements, viewState, currentElementsRef, currentAppStateRef, debounce,
                 sinceBroadcast, broadcastTimeoutRef, sent, nEvents, nFail>>
  /\ UNCHANGED <<limits, mergeVars, pageVars, accessVars, remoteVars>>

-----------------------------------------------------------------------------
(* The change handler *)

(* As channelConfig, with the sender's own broadcasts delivered to it *)
channelConfigSelf(boardSlug) == [broadcast |-> [self |-> TRUE]]

(* The config of supabase.channel(`board:${boardSlug}`, {config}) *)
channelConfig(boardSlug) == [broadcast |-> [self |-> FALSE]]

(* channelRef.current.send({type: 'broadcast', event: 'scene-update', payload}): *)
(* the channel delivers the message to the peers and, if the config says   *)
(* so, to this tab.  byTimer (history): the throttle timer sends.           *)
Send(els, appState, byTimer) ==
  /\ sent' = [n |-> sent.n + 1,
              flushed |-> sent.flushed + (IF byTimer THEN 1 ELSE 0),
              last |-> [elements |-> els, appState |-> appState]]
  /\ inbox' = IF channelConfig(0).broadcast.self
              THEN inbox \cup {[from |-> "self", elements |-> els, appState |-> appState]}
              ELSE inbox

(* As ChangeIgnored, without the test of isApplyingRemoteUpdateRef *)
ChangeIgnoredNever(applying) == FALSE

(* The guards at the top of handleChange.  isUpdatingFromStateRef is never *)
(* set, so isApplyingRemoteUpdateRef decides.                              *)
ChangeIgnored(applying) == applying

(* As BroadcastTooSoon, with no throttle window *)
BroadcastTooSoonNever(timeSinceLastBroadcast) == FALSE

BroadcastTooSoon(timeSinceLastBroadcast) == timeSinceLastBroadcast < BROADCAST_DEBOUNCE_MS

(* handleChange(elements, appState), called by the canvas with its scene.  *)
(* seq numbers the event.                                                  *)
handleChange(els, appState, seq) ==
  IF ChangeIgnored(isApplyingRemoteUpdateRef)
  THEN UNCHANGED <<currentElementsRef, currentAppStateRef, broadcastTimeoutRef, sent,
                   sinceBroadcast, isDirty, debounce, inbox>>
  ELSE
  /\ currentElementsRef' = els
  /\ currentAppStateRef' = appState
  /\ IF elementsChanged(els, lastSavedElementsRef)
     THEN LET sanitizedAppState == SanitizeForSave(appState)
          IN  /\ IF BroadcastTooSoon(sinceBroadcast)
                 THEN /\ broadcastTimeoutRef' = TRUE
                      /\ UNCHANGED <<sent, sinceBroadcast, inbox>>
                 ELSE /\ broadcastTimeoutRef' = FALSE
                      /\ Send(els, filterSharedAppState(sanitizedAppState), FALSE)
                      /\ sinceBroadcast' = 0
              /\ isDirty' = TRUE
              /\ debounce' = [pending |-> TRUE, remaining |-> SAVE_DEBOUNCE_MS,
                              args |-> Payload(els, sanitizedAppState, seq)]
     ELSE UNCHANGED <<broadcastTimeoutRef, sent, sinceBroadcast, isDirty, debounce, inbox>>

(* The canvas changes its scene and emits onChange *)
Emit(els, appState) ==
  /\ view = "mounted"
  /\ excalidrawRef
  /\ nEvents < limits.events
  /\ Stimuli < limits.stimuli
  /\ nEvents' = nEvents + 1
  /\ elements' = els
  /\ viewState' = appState
  /\ handleChange(els, appState, nEvents + 1)
  /\ UNCHANGED <<lastSavedElementsRef, isSaving, isOnline, navOnline, retryQueueRef,
                 storedQueue, toasts, backoffTimers, inflight, db, nFail, drains, offlined>>
  /\ UNCHANGED <<limits, mergeVars, pageVars, accessVars, guardVars, channelVars, presenceVars>>

(* The user draws a new element *)
AddElement ==
  /\ Len(elements) < MaxElems
  /\ Emit(Append(elements, Elem(Len(elements) + 1, 1, 0)), viewState)

(* The user moves element i, there or back: its version is incremented *)
MoveElement(i) ==
  /\ elements[i].version < MaxVersion
  /\ Emit([elements EXCEPT ![i] = [@ EXCEPT !.version = @ + 1, !.x = 1 - @]], viewState)

(* The user deletes element i: the element stays in the list, marked, its  *)
(* version incremented                                                     *)
DeleteElement(i) ==
  /\ ~elements[i].isDeleted
  /\ elements[i].version < MaxVersion
  /\ Emit([elements EXCEPT ![i] = [@ EXCEPT !.version = @ + 1, !.isDeleted = TRUE]],
          viewState)

(* The user pans or zooms: only the view-state changes *)
ViewChange ==
  \E z \in {0, 1} :
    /\ AppState(z) # viewState
    /\ Emit(elements, AppState(z))

(* The throttled broadcast timer fires: the current refs are sent *)
BroadcastTimeoutFire ==
  /\ broadcastTimeoutRef
  /\ sinceBroadcast = BROADCAST_DEBOUNCE_MS
  /\ Send(currentElementsRef, filterSharedAppState(currentAppStateRef), TRUE)
  /\ sinceBroadcast' = 0
  /\ broadcastTimeoutRef' = FALSE
  /\ UNCHANGED <<elements, viewState, currentElementsRef, currentAppStateRef,
                 lastSavedElementsRef, isDirty, isSaving, isOnline, navOnline, retryQueueRef,
                 storedQueue, toasts, debounce, backoffTimers, inflight, db, nEvents, nFail,
                 drains, offlined>>
  /\ UNCHANGED <<limits, mergeVars, pageVars, accessVars, guardVars, channelVars, presenceVars>>

(* BROADCAST_DEBOUNCE_MS pass: the throttle window closes, the pending      *)
(* resets of the guard come closer.  No timer is due, and the canvas has   *)
(* emitted the onChange of every updateScene.                              *)
ThrottleElapse ==
  /\ sinceBroadcast < BROADCAST_DEBOUNCE_MS \/ guardTimers # {}
  /\ ~(broadcastTimeoutRef /\ sinceBroadcast = BROADCAST_DEBOUNCE_MS)
  /\ 0 \notin guardTimers
  /\ ~echoPending
  /\ sinceBroadcast' = BROADCAST_DEBOUNCE_MS
  /\ guardTimers' = {t - BROADCAST_DEBOUNCE_MS : t \in guardTimers}
  /\ UNCHANGED <<elements, viewState, currentElementsRef, currentAppStateRef,
                 lastSavedElementsRef, isDirty, isSaving, isOnline, navOnline, retryQueueRef,
                 storedQueue, toasts, debounce, backoffTimers, inflight, db,
                 broadcastTimeoutRef, sent, nEvents, nFail, drains, offlined>>
  /\ UNCHANGED <<limits, mergeVars, pageVars, accessVars, isApplyingRemoteUpdateRef, echoPending, lastApplied,
                 channelVars, inbox, presenceVars>>

(* BackoffBaseMs pass: no timer is due, some timer is pending, and every   *)
(* updateBoard and getBoard call has been answered (the store answers      *)
(* within that time)                                                       *)
Tick ==
  /\ sinceBroadcast = BROADCAST_DEBOUNCE_MS
  /\ ~broadcastTimeoutRef
  /\ guardTimers = {}
  /\ ~echoPending
  /\ inflight = {}
  /\ fetching = 0
  /\ debounce.pending \/ backoffTimers # {}
  /\ debounce.pending => debounce.remaining >= BackoffBaseMs
  /\ \A t \in backoffTimers : t.remaining >= BackoffBaseMs
  /\ debounce' = IF debounce.pending
                 THEN [debounce EXCEPT !.remaining = @ - BackoffBaseMs]
                 ELSE debounce
  /\ backoffTimers' = {[t EXCEPT !.remaining = @ - BackoffBaseMs] : t \in backoffTimers}
  /\ UNCHANGED <<elements, viewState, currentElementsRef, currentAppStateRef,
                 lastSavedElementsRef, isDirty, isSaving, isOnline, navOnline, retryQueueRef,
                 storedQueue, toasts, inflight, db, sinceBroadcast, broadcastTimeoutRef, sent,
                 nEvents, nFail, drains, offlined>>
  /\ UNCHANGED <<limits, mergeVars, pageVars, accessVars, remoteVars>>

-----------------------------------------------------------------------------
(* The realtime channel: status callback, re-fetch sync, scene-update      *)
(* handler.  The peer stands for the other tabs and users of the board.    *)

(* What the channel handlers leave alone of the save path *)
saveVars == <<isSaving, isOnline, navOnline, retryQueueRef, storedQueue, backoffTimers,
              inflight, nFail, drains, offlined>>
throttleVars == <<sinceBroadcast, broadcastTimeoutRef, sent>>

(* {...a, ...b} *)
Spread(a, b) == {kv \in a : \A kv2 \in b : kv2[1] # kv[1]} \cup b

(* collaborators: localAppState.collaborators || undefined, the property   *)
(* deleted when undefined                                                  *)
WithLocalCollaborators(appState, localAppState) ==
  {kv \in appState : kv[1] # "collaborators"}
    \cup {kv \in localAppState : kv[1] = "collaborators"}

(* excalidrawRef.current.updateScene({elements, appState}): the scene is   *)
(* replaced, the given appState properties are set, onChange will follow.  *)
updateScene(els, appState) ==
  /\ elements' = els
  /\ viewState' = Spread(viewState, appState)
  /\ echoPending' = TRUE
  /\ lastApplied' = els

(* setTimeout(() => { isApplyingRemoteUpdateRef.current = false }, 100) *)
ScheduleGuardReset == guardTimers' = guardTimers \cup {GuardResetMs}

(* The excalidrawAPI prop callback: the canvas has mounted *)
(* with initialData={initialDataRef.current || {elements: [], appState: {}}}; *)
(* it is rendered once the effects have run and while hasError is false.   *)
excalidrawAPI ==
  /\ view = "mounted"
  /\ ~hasError
  /\ ~excalidrawRef
  /\ excalidrawRef' = TRUE
  /\ elements' = IF initialDataRef.set THEN initialDataRef.elements ELSE <<>>
  /\ viewState' = IF initialDataRef.set THEN Spread(viewState, initialDataRef.appState)
                  ELSE viewState
  /\ UNCHANGED <<currentElementsRef, currentAppStateRef, lastSavedElementsRef,
                 isDirty, toasts, debounce, db, nEvents, limits>>
  /\ UNCHANGED <<saveVars, throttleVars, mergeVars, pageVars, accessVars, guardVars,
                 previousStatusRef, fetching, lastRecv, everSubscribed, nSync, nStatus,
                 nPeer, nThrow, inbox, presenceVars>>

(* As IsInitialSubscribe, without the test of previousStatusRef *)
IsInitialSubscribeAlways(previous, status) == status = "SUBSCRIBED"

(* status === 'SUBSCRIBED' && !previousStatusRef.current *)
IsInitialSubscribe(previous, status) == status = "SUBSCRIBED" /\ previous = "none"

(* previousStatusRef.current is CLOSED or TIMED_OUT and status is SUBSCRIBED *)
IsReconnect(previous, status) ==
  /\ previous # "none"
  /\ previous \in {"CLOSED", "TIMED_OUT"}
  /\ status = "SUBSCRIBED"

ChannelStatuses == {"SUBSCRIBED", "CHANNEL_ERROR", "TIMED_OUT", "CLOSED"}

(* The callback of channel.subscribe.  Each call of syncFromDatabase that  *)
(* finds the canvas mounted calls getBoard.                                *)
OnStatus(status) ==
  /\ channelRef
  /\ Stimuli < limits.stimuli
  /\ nStatus' = nStatus + 1
  /\ LET calls == (IF IsReconnect(previousStatusRef, status) THEN 1 ELSE 0)
                    + (IF IsInitialSubscribe(previousStatusRef, status) THEN 1 ELSE 0)
     IN  /\ nSync' = nSync + calls
         /\ fetching' = IF excalidrawRef THEN fetching + calls ELSE fetching
  /\ toasts' = IF status = "CHANNEL_ERROR" THEN toasts \cup {"channel-error"}
               ELSE IF status = "TIMED_OUT" THEN toasts \cup {"channel-timeout"}
               ELSE toasts
  /\ previousStatusRef' = status
  /\ everSubscribed' = (everSubscribed \/ status = "SUBSCRIBED")
  /\ UNCHANGED <<elements, viewState, currentElementsRef, currentAppStateRef,
                 lastSavedElementsRef, isDirty, debounce, db, nEvents, limits>>
  /\ UNCHANGED <<saveVars, throttleVars, mergeVars, pageVars, accessVars, guardVars, excalidrawRef, lastRecv,
                 nPeer, nThrow, inbox, presenceVars>>

SyncFetchFailedNever(outcome) == FALSE

(* getBoard answered with an error or without data *)
SyncFetchFailed(outcome) == outcome = "error"

(* syncFromDatabase after its await.  outcome: getBoard's result is an     *)
(* error, or the board is merged and applied, or updateScene throws.       *)
SyncResponse(outcome) ==
  /\ fetching > 0
  /\ fetching' = fetching - 1
  /\ outcome = "throws" => Stimuli < limits.stimuli
  /\ nThrow' = IF outcome = "throws" THEN nThrow + 1 ELSE nThrow
  /\ LET dbElements == db.elements
         dbAppState == db.app_state
         mergedElements == mergeElementsByLastWrite(elements, dbElements)
         localAppState == currentAppStateRef
         mergedAppState == WithLocalCollaborators(dbAppState, localAppState)
     IN  CASE SyncFetchFailed(outcome) ->
                UNCHANGED <<elements, viewState, currentElementsRef, currentAppStateRef,
                            lastSavedElementsRef, isDirty, guardVars>>
           [] ~SyncFetchFailed(outcome) /\ outcome = "throws" ->
                /\ isApplyingRemoteUpdateRef' = TRUE
                /\ UNCHANGED <<elements, viewState, currentElementsRef, currentAppStateRef,
                               lastSavedElementsRef, isDirty, guardTimers, echoPending,
                               lastApplied>>
           [] OTHER ->
                /\ isApplyingRemoteUpdateRef' = TRUE
                /\ updateScene(mergedElements, mergedAppState)
                /\ currentElementsRef' = mergedElements
                /\ currentAppStateRef' = mergedAppState
                /\ lastSavedElementsRef' = DeepCopy(mergedElements)
                /\ isDirty' = FALSE
                /\ ScheduleGuardReset
  /\ UNCHANGED <<toasts, debounce, db, nEvents, limits>>
  /\ UNCHANGED <<saveVars, throttleVars, mergeVars, pageVars, accessVars, excalidrawRef, previousStatusRef,
                 lastRecv, everSubscribed, nSync, nStatus, nPeer, inbox, presenceVars>>

(* The scenes of the peer: element 1 moved, or an element of its own added *)
PeerScenes == {<<Elem(1, 2, 1)>>, <<Elem(1, 1, 0), Elem(0, 1, 1)>>}

(* The peer's view-state, as its saves store it *)
PeerAppState == {<<"zoom", 1>>}

(* A peer broadcasts its scene while this tab is subscribed *)
PeerBroadcast(scene) ==
  /\ channelRef
  /\ Stimuli < limits.stimuli
  /\ previousStatusRef = "SUBSCRIBED"
  /\ nPeer' = nPeer + 1
  /\ inbox' = inbox \cup {[from |-> "peer", elements |-> scene,
                           appState |-> filterSharedAppState(PeerAppState)]}
  /\ UNCHANGED <<engineVars, mergeVars, pageVars, accessVars, guardVars, excalidrawRef, previousStatusRef,
                 fetching, lastRecv, everSubscribed, nSync, nStatus, nThrow, presenceVars>>

(* A peer's save reaches the store *)
PeerWrite(scene) ==
  /\ Stimuli < limits.stimuli
  /\ nPeer' = nPeer + 1
  /\ db' = [elements |-> scene, app_state |-> PeerAppState, seq |-> db.seq]
  /\ UNCHANGED <<elements, viewState, currentElementsRef, currentAppStateRef,
                 lastSavedElementsRef, isDirty, toasts, debounce, nEvents, limits>>
  /\ UNCHANGED <<saveVars, throttleVars, mergeVars, pageVars, accessVars, guardVars, excalidrawRef,
                 previousStatusRef, fetching, lastRecv, everSubscribed, nSync, nStatus,
                 nThrow, inbox, presenceVars>>

(* The scene-update broadcast handler, called with a delivered message.    *)
(* throws: something in the try block throws.                              *)
OnSceneUpdate(m, throws) ==
  /\ channelRef
  /\ inbox' = inbox \ {m}
  /\ lastRecv' = m.from
  /\ throws => Stimuli < limits.stimuli /\ ~isApplyingRemoteUpdateRef /\ excalidrawRef
  /\ nThrow' = IF throws THEN nThrow + 1 ELSE nThrow
  /\ LET mergedElements == mergeElementsByLastWrite(elements, m.elements)
         localAppState == currentAppStateRef
         remoteAppState == m.appState
         mergedAppState == WithLocalCollaborators(Spread(localAppState, remoteAppState),
                                                  localAppState)
     IN  IF isApplyingRemoteUpdateRef \/ ~excalidrawRef
         THEN UNCHANGED <<elements, viewState, currentElementsRef, currentAppStateRef,
                          lastSavedElementsRef, isDirty, guardVars>>
         ELSE IF throws
         THEN /\ isApplyingRemoteUpdateRef' = FALSE
              /\ UNCHANGED <<elements, viewState, currentElementsRef, currentAppStateRef,
                             lastSavedElementsRef, isDirty, guardTimers, echoPending,
                             lastApplied>>
         ELSE /\ isApplyingRemoteUpdateRef' = TRUE
              /\ updateScene(mergedElements, mergedAppState)
              /\ currentElementsRef' = mergedElements
              /\ currentAppStateRef' = mergedAppState
              /\ IF elementsChanged(mergedElements, lastSavedElementsRef)
                 THEN /\ lastSavedElementsRef' = DeepCopy(mergedElements)
                      /\ isDirty' = FALSE
                 ELSE UNCHANGED <<lastSavedElementsRef, isDirty>>
              /\ ScheduleGuardReset
  /\ UNCHANGED <<toasts, debounce, db, nEvents, limits>>
  /\ UNCHANGED <<saveVars, throttleVars, mergeVars, pageVars, accessVars, excalidrawRef, previousStatusRef,
                 fetching, everSubscribed, nSync, nStatus, nPeer, presenceVars>>

(* The canvas emits the onChange of an updateScene, with the scene it shows *)
Echo ==
  /\ echoPending
  /\ echoPending' = FALSE
  /\ handleChange(elements, viewState, nEvents)
  /\ UNCHANGED <<elements, viewState, lastSavedElementsRef, toasts, db, nEvents, limits>>
  /\ UNCHANGED <<saveVars, mergeVars, pageVars, accessVars, isApplyingRemoteUpdateRef, guardTimers, lastApplied,
                 channelVars, presenceVars>>

(* A reset of the guard scheduled by an apply fires.  The delay is there   *)
(* "to allow Excalidraw to process": the canvas emits the onChange of an   *)
(* updateScene before the next reset runs.                                 *)
GuardTimeout ==
  /\ 0 \in guardTimers
  /\ ~echoPending
  /\ guardTimers' = guardTimers \ {0}
  /\ isApplyingRemoteUpdateRef' = FALSE
  /\ UNCHANGED <<engineVars, mergeVars, pageVars, accessVars, echoPending, lastApplied, channelVars, inbox,
                 presenceVars>>

-----------------------------------------------------------------------------
(* The board as loaded by the page: one element *)
InitialScenes == {<<Elem(1, 1, 0)>>}

MergeIdle ==
  /\ mLocal = <<>>
  /\ mRemote = <<>>
  /\ mOut = <<>>
  /\ mPhase = "idle"

(* The state after mount: initializeData, the restored (empty) retry       *)
(* queue, setIsOnline(navigator.onLine), the channel created.  A client    *)
(* offline at mount is in the state handleOffline leads to.                *)
(* The view after its mount effects, with a valid initial scene *)
PageMounted(scene) ==
  /\ view = "mounted"
  /\ channelRef = TRUE
  /\ hasError = FALSE
  /\ errorMessage = "null"
  /\ initialDataRef = [set |-> TRUE, elements |-> scene, appState |-> {}]
  /\ initialElements = scene
  /\ initialAppState = {}

(* No session is followed at the store *)
NoDelay == -1

NoPollTimers == [initialTimeout |-> NoDelay, interval |-> NoDelay]

(* No read-only view *)
ViewerIdle ==
  /\ publicView = "none"
  /\ publicExcalidrawRef = FALSE
  /\ publicScene = <<>>
  /\ pollTimers = NoPollTimers
  /\ polls = {}
  /\ sinceMount = 0
  /\ nPolls = 0

AccessIdle ==
  /\ authUser = 0
  /\ board = [exists |-> FALSE, is_public |-> FALSE, created_by |-> 0]
  /\ board_shares = {}
  /\ result = [data |-> FALSE, error |-> "none"]
  /\ wrapper = "none"
  /\ ViewerIdle

EngineInit(scene, online) ==
  /\ PageMounted(scene)
  /\ AccessIdle
  /\ elements = scene
  /\ viewState = AppState(0)
  /\ currentElementsRef = <<>>
  /\ currentAppStateRef = {}
  /\ lastSavedElementsRef = DeepCopy(scene)
  /\ isDirty = FALSE
  /\ isSaving = FALSE
  /\ isOnline = online
  /\ navOnline = online
  /\ retryQueueRef = <<>>
  /\ storedQueue = <<>>
  /\ toasts = {}
  /\ debounce = NoTimer
  /\ backoffTimers = {}
  /\ inflight = {}
  /\ db = [elements |-> scene, app_state |-> {}, seq |-> 0]
  /\ sinceBroadcast = BROADCAST_DEBOUNCE_MS
  /\ broadcastTimeoutRef = FALSE
  /\ sent = [n |-> 0, flushed |-> 0, last |-> [elements |-> <<>>, appState |-> {}]]
  /\ nEvents = 0
  /\ nFail = 0
  /\ drains = <<>>
  /\ offlined = {}

Limits(e, f, d) == [events |-> e, failures |-> f, drains |-> d, stimuli |-> e]

(* The channel created and not yet subscribed, nobody present; mounted     *)
(* says whether the canvas has handed over its API.                        *)
RemoteInit(mounted) ==
  /\ excalidrawRef = mounted
  /\ isApplyingRemoteUpdateRef = FALSE
  /\ guardTimers = {}
  /\ echoPending = FALSE
  /\ lastApplied = <<>>
  /\ previousStatusRef = "none"
  /\ fetching = 0
  /\ inbox = {}
  /\ lastRecv = "none"
  /\ everSubscribed = FALSE
  /\ nSync = 0
  /\ nStatus = 0
  /\ nPeer = 0
  /\ nThrow = 0
  /\ presenceState = <<>>
  /\ onlineUsers = <<>>

Init ==
  /\ \E scene \in InitialScenes : EngineInit(scene, TRUE)
  /\ limits = Limits(MaxEvents, MaxFailures, MaxDrains)
  /\ MergeIdle
  /\ RemoteInit(TRUE)

(* The environment in which a save's retry chain is followed to the retry  *)
(* ceiling: few change events, many store failures, no drain.              *)
InitRetry ==
  /\ \E scene \in InitialScenes : EngineInit(scene, TRUE)
  /\ limits = Limits(MaxChainEvents, MaxChainFailures, 0)
  /\ MergeIdle
  /\ RemoteInit(TRUE)

Next ==
  \/ AddElement
  \/ \E i \in 1..Len(elements) : MoveElement(i)
  \/ ViewChange
  \/ DebounceFire
  \/ \E t \in backoffTimers : BackoffFire(t)
  \/ \E r \in inflight : WriteSuccess(r)
  \/ \E r \in inflight : WriteFail(r)
  \/ handleOffline
  \/ handleOnline
  \/ BroadcastTimeoutFire
  \/ ThrottleElapse
  \/ Tick

Spec == Init /\ [][Next]_vars

SpecRetry == InitRetry /\ [][Next]_vars

(* The environment in which the channel is followed: the canvas mounts,    *)
(* the channel reports its statuses, a peer broadcasts and saves, every    *)
(* store write of this tab succeeds.                                       *)
RemoteLimits == [events |-> MaxStimuli, failures |-> 0, drains |-> 0, stimuli |-> MaxStimuli]

InitRemote ==
  /\ \E scene \in InitialScenes : EngineInit(scene, TRUE)
  /\ limits = RemoteLimits
  /\ MergeIdle
  /\ RemoteInit(FALSE)

NextRemote ==
  \/ excalidrawAPI
  \/ AddElement
  \/ \E i \in 1..Len(elements) : MoveElement(i)
  \/ ViewChange
  \/ DebounceFire
  \/ \E r \in inflight : WriteSuccess(r)
  \/ BroadcastTimeoutFire
  \/ ThrottleElapse
  \/ Tick
  \/ \E status \in ChannelStatuses : OnStatus(status)
  \/ \E outcome \in {"ok", "error", "throws"} : SyncResponse(outcome)
  \/ \E scene \in PeerScenes : PeerBroadcast(scene)
  \/ \E scene \in PeerScenes : PeerWrite(scene)
  \/ \E m \in inbox, throws \in BOOLEAN : OnSceneUpdate(m, throws)
  \/ Echo
  \/ GuardTimeout

SpecRemote == InitRemote /\ [][NextRemote]_vars

-----------------------------------------------------------------------------
(* Presence.  channel.presenceState() is an object: per presence key, in   *)
(* the order the keys came, the array of the metas tracked under it.       *)

(* Object.values(state).flat() *)
RECURSIVE Flat(_)
Flat(arrays) ==
  IF arrays = <<>> THEN <<>> ELSE Head(arrays).metas \o Flat(Tail(arrays))

IsNewUserAlways(acc, user) == TRUE

(* !acc.find(u => u.user_id === user.user_id) *)
IsNewUser(acc, user) == \A i \in 1..Len(acc) : acc[i].user_id # user.user_id

(* allUsers.reduce(..., []): the first occurrence per user_id is kept *)
RECURSIVE uniqueUsers(_, _)
uniqueUsers(allUsers, acc) ==
  IF allUsers = <<>>
  THEN acc
  ELSE uniqueUsers(Tail(allUsers),
                   IF IsNewUser(acc, Head(allUsers))
                   THEN Append(acc, Head(allUsers))
                   ELSE acc)

PresenceKeys == {presenceState[i].key : i \in 1..Len(presenceState)}

(* A tab of user u tracks its presence under presence key k, its time the  *)
(* number of metas tracked before it; a key shared by several connections  *)
(* holds several metas.                                                    *)
Track(k, u) ==
  /\ Len(Flat(presenceState)) < MaxTabs
  /\ LET meta == [user_id |-> u, online_at |-> Len(Flat(presenceState))]
     IN  presenceState' =
           IF k \in PresenceKeys
           THEN [i \in 1..Len(presenceState) |->
                   IF presenceState[i].key = k
                   THEN [presenceState[i] EXCEPT !.metas = Append(@, meta)]
                   ELSE presenceState[i]]
           ELSE Append(presenceState, [key |-> k, metas |-> <<meta>>])
  /\ UNCHANGED <<engineVars, mergeVars, pageVars, accessVars, guardVars, channelVars, inbox, onlineUsers>>

(* The connections under a presence key leave the channel *)
Untrack(k) ==
  /\ k \in PresenceKeys
  /\ presenceState' = SelectSeq(presenceState, LAMBDA e : e.key # k)
  /\ UNCHANGED <<engineVars, mergeVars, pageVars, accessVars, guardVars, channelVars, inbox, onlineUsers>>

(* The handler of the presence sync event *)
PresenceSync ==
  /\ LET state == presenceState
         allUsers == Flat(state)
     IN  onlineUsers' = uniqueUsers(allUsers, <<>>)
  /\ UNCHANGED <<engineVars, mergeVars, pageVars, accessVars, guardVars, channelVars, inbox, presenceState>>

(* The environment in which presence is followed: tabs come and go, the    *)
(* canvas is left alone.                                                   *)
InitPresence ==
  /\ \E scene \in InitialScenes : EngineInit(scene, TRUE)
  /\ limits = Limits(0, 0, 0)
  /\ MergeIdle
  /\ RemoteInit(TRUE)

NextPresence ==
  \/ \E k \in 1..MaxTabs, u \in 1..MaxUsers : Track(k, u)
  \/ \E k \in 1..MaxTabs : Untrack(k)
  \/ PresenceSync

SpecPresence == InitPresence /\ [][NextPresence]_vars

-----------------------------------------------------------------------------
(* The board view from its construction on: the mount effects, the error   *)
(* fallback.                                                               *)

(* An element list of n elements *)
SceneOf(n) == [i \in 1..n |-> Elem(i, 1, 0)]

(* As validateExcalidrawData, without the element cap *)
validateExcalidrawDataNoCap(els, appState) == [valid |-> TRUE, error |-> "null"]

(* validateExcalidrawData.  BoardPage hands the view an array and an       *)
(* object, so the two type tests pass.                                     *)
validateExcalidrawData(els, appState) ==
  IF Len(els) > MAX_ELEMENTS
  THEN [valid |-> FALSE, error |-> "too-many-elements"]
  ELSE [valid |-> TRUE, error |-> "null"]

(* sanitizeAppState: a collaborators property that is no Map is deleted *)
sanitizeAppState(appState) == {kv \in appState : kv[1] # "collaborators"}

(* initializeData: what it leaves in the error state, the baseline and     *)
(* initialDataRef.  Nothing in its try block throws on an array and an     *)
(* object.                                                                 *)
initializeData ==
  LET validation == validateExcalidrawData(initialElements, initialAppState)
  IN  IF ~validation.valid
      THEN [hasError |-> TRUE, errorMessage |-> validation.error,
            lastSaved |-> lastSavedElementsRef, initialData |-> initialDataRef]
      ELSE [hasError |-> FALSE, errorMessage |-> "null",
            lastSaved |-> DeepCopy(initialElements),
            initialData |-> IF initialDataRef.set THEN initialDataRef
                            ELSE [set |-> TRUE, elements |-> initialElements,
                                  appState |-> sanitizeAppState(initialAppState)]]

StartupDrainNever(s, online) == s

(* The effect that drains the restored queue once, at mount *)
StartupDrain(s, online) ==
  IF Len(s.q) > 0 /\ online THEN processRetryQueue(s, online) ELSE s

(* The effects of the mount, in their order: initializeData, the retry     *)
(* queue read from localStorage, setIsOnline(navigator.onLine); the drain  *)
(* of a queue that is not empty; the channel created and subscribed.       *)
MountEffect ==
  /\ view = "constructed"
  /\ view' = "mounted"
  /\ LET init == initializeData
         savedQueue == storedQueue
         queue == IF savedQueue # <<>> THEN JSONParse(savedQueue) ELSE retryQueueRef
         s0 == [EngineState EXCEPT !.lastSaved = init.lastSaved, !.q = queue]
     IN  /\ hasError' = init.hasError
         /\ errorMessage' = init.errorMessage
         /\ initialDataRef' = init.initialData
         /\ Commit(StartupDrain(s0, navOnline))
  /\ isOnline' = navOnline
  /\ channelRef' = TRUE
  /\ UNCHANGED <<elements, viewState, currentElementsRef, currentAppStateRef, navOnline,
                 debounce, sinceBroadcast, broadcastTimeoutRef, sent, nEvents, nFail, limits>>
  /\ UNCHANGED <<mergeVars, remoteVars, accessVars, initialElements, initialAppState>>

(* The Start Fresh button of the error screen *)
handleErrorFallback ==
  /\ view = "mounted"
  /\ hasError
  /\ hasError' = FALSE
  /\ errorMessage' = "null"
  /\ IF excalidrawRef
     THEN updateScene(<<>>, {})
     ELSE UNCHANGED <<elements, viewState, echoPending, lastApplied>>
  /\ UNCHANGED <<currentElementsRef, currentAppStateRef, lastSavedElementsRef, isDirty,
                 toasts, debounce, db, nEvents, limits>>
  /\ UNCHANGED <<saveVars, throttleVars, mergeVars, accessVars, isApplyingRemoteUpdateRef,
                 guardTimers, channelVars, inbox, presenceVars, view, channelRef,
                 initialDataRef, initialElements, initialAppState>>

(* The view constructed and not yet mounted: the states and refs at their  *)
(* initial values, no canvas, no channel; the board's record holds the     *)
(* scene the page was rendered from.                                       *)
Constructed(scene, appState, online, savedQueue) ==
  /\ view = "constructed"
  /\ channelRef = FALSE
  /\ hasError = FALSE
  /\ errorMessage = "null"
  /\ initialDataRef = [set |-> FALSE, elements |-> <<>>, appState |-> {}]
  /\ initialElements = scene
  /\ initialAppState = appState
  /\ elements = <<>>
  /\ viewState = AppState(0)
  /\ currentElementsRef = <<>>
  /\ currentAppStateRef = {}
  /\ lastSavedElementsRef = <<>>
  /\ isDirty = FALSE
  /\ isSaving = FALSE
  /\ isOnline = TRUE
  /\ navOnline = online
  /\ retryQueueRef = <<>>
  /\ storedQueue = savedQueue
  /\ toasts = {}
  /\ debounce = NoTimer
  /\ backoffTimers = {}
  /\ inflight = {}
  /\ db = [elements |-> scene, app_state |-> appState, seq |-> 0]
  /\ sinceBroadcast = BROADCAST_DEBOUNCE_MS
  /\ broadcastTimeoutRef = FALSE
  /\ sent = [n |-> 0, flushed |-> 0, last |-> [elements |-> <<>>, appState |-> {}]]
  /\ nEvents = 0
  /\ nFail = 0
  /\ drains = <<>>
  /\ offlined = {}
  /\ MergeIdle
  /\ RemoteInit(FALSE)

(* The stored scenes a view is loaded from: a small one, and one above the *)
(* element cap                                                             *)
LoadScenes == {<<Elem(1, 1, 0)>>, SceneOf(MAX_ELEMENTS + 1)}

(* The statuses of a channel whose join succeeds or fails *)
JoinStatuses == {"SUBSCRIBED", "CHANNEL_ERROR"}

(* The environment in which the load is followed: the view mounts, shows   *)
(* the canvas or the error screen, the channel joins and the board is      *)
(* re-fetched.                                                             *)
InitLoad ==
  /\ \E scene \in LoadScenes, online \in BOOLEAN : Constructed(scene, {}, online, <<>>)
  /\ AccessIdle
  /\ limits = RemoteLimits

NextLoad ==
  \/ MountEffect
  \/ handleErrorFallback
  \/ excalidrawAPI
  \/ AddElement
  \/ ViewChange
  \/ \E status \in JoinStatuses : OnStatus(status)
  \/ \E outcome \in {"ok", "error"} : SyncResponse(outcome)
  \/ Echo
  \/ GuardTimeout
  \/ ThrottleElapse

SpecLoad == InitLoad /\ [][NextLoad]_vars

-----------------------------------------------------------------------------
(* The view's life: mounted with a retry queue persisted by an earlier     *)
(* session, used, unmounted.                                               *)

(* The view unmounts.  The channel effect's cleanup clears the throttle    *)
(* timer, unsubscribes and releases the channel; the online and offline    *)
(* listeners are removed; the debounce hook drops its pending call.  The   *)
(* view has no cleanup for the retry timers of saveToDb, for the calls it  *)
(* awaits, or for the resets of the guard.                                 *)
Unmount ==
  /\ view = "mounted"
  /\ view' = "unmounted"
  /\ broadcastTimeoutRef' = FALSE
  /\ channelRef' = FALSE
  /\ inbox' = {}
  /\ debounce' = NoTimer
  /\ UNCHANGED <<elements, viewState, currentElementsRef, currentAppStateRef,
                 lastSavedElementsRef, isDirty, toasts, db, sinceBroadcast, sent, nEvents,
                 limits>>
  /\ UNCHANGED <<saveVars, mergeVars, accessVars, guardVars, channelVars, presenceVars,
                 hasError, errorMessage, initialDataRef, initialElements, initialAppState>>

(* The entries an earlier session left: a moved element, then a second     *)
(* element added                                                           *)
SavedItems ==
  <<QueueItem(Payload(<<Elem(1, 2, 1)>>, {}, -2), 1),
    QueueItem(Payload(<<Elem(1, 2, 1), Elem(2, 1, 0)>>, {}, -1), 0)>>

SavedQueues == {<<>>, JSONStringify(SavedItems)}

(* A queue an earlier session left whose first entry is at the retry      *)
(* ceiling and whose second is one failure below it                        *)
CeilingItems ==
  <<QueueItem(Payload(<<Elem(1, 2, 1)>>, {}, -2), MAX_RETRIES),
    QueueItem(Payload(<<Elem(1, 2, 1), Elem(2, 1, 0)>>, {}, -1), MAX_RETRIES - 1)>>

InitDrain ==
  /\ \E online \in BOOLEAN : Constructed(<<>>, {}, online, JSONStringify(CeilingItems))
  /\ AccessIdle
  /\ limits = Limits(MaxLifeEvents, MaxFailures, MaxDrains)

(* The board is new: none of the earlier session's saves reached the store *)
InitLife ==
  /\ \E online \in BOOLEAN, savedQueue \in SavedQueues :
       Constructed(<<>>, {}, online, savedQueue)
  /\ AccessIdle
  /\ limits = Limits(MaxLifeEvents, MaxFailures, MaxDrains)

NextLife ==
  \/ MountEffect
  \/ excalidrawAPI
  \/ AddElement
  \/ DebounceFire
  \/ \E t \in backoffTimers : BackoffFire(t)
  \/ \E r \in inflight : WriteSuccess(r)
  \/ \E r \in inflight : WriteFail(r)
  \/ handleOffline
  \/ handleOnline
  \/ ThrottleElapse
  \/ Tick
  \/ Unmount

SpecLife == InitLife /\ [][NextLife]_vars

SpecDrain == InitDrain /\ [][NextLife]_vars

-----------------------------------------------------------------------------
(* Access: who is handed the board, and which view.  Users are 1, 2, ...;  *)
(* 0 is nobody (an anonymous visitor, a board whose creator was deleted).  *)

(* The store's SELECT policies on boards, for the authenticated and the    *)
(* anonymous role                                                          *)
boardsSelectPolicy(user, row, shares) ==
  /\ row.exists
  /\ \/ row.is_public
     \/ user # 0 /\ (row.created_by = user \/ user \in shares)

(* The store's UPDATE policy on boards: the authenticated role only *)
boardsUpdatePolicy(user, row, shares) ==
  /\ row.exists
  /\ user # 0
  /\ row.created_by = user \/ user \in shares

NoAccess == [data |-> FALSE, error |-> "You do not have access to this board"]

getBoardNoPublic(user, row, shares) ==
  IF ~boardsSelectPolicy(user, row, shares)
  THEN [data |-> FALSE, error |-> "Board not found"]
  ELSE IF user = 0
  THEN NoAccess
  ELSE LET isOwner == row.created_by = user
           isShared == IF isOwner THEN FALSE ELSE user \in shares
       IN  IF ~isOwner /\ ~isShared THEN NoAccess ELSE [data |-> TRUE, error |-> "none"]

(* getBoard(slug), called in the session of user (0: no session) *)
getBoard(user, row, shares) ==
  IF ~boardsSelectPolicy(user, row, shares)
  THEN [data |-> FALSE, error |-> "Board not found"]
  ELSE IF row.is_public
  THEN [data |-> TRUE, error |-> "none"]
  ELSE IF user = 0
  THEN NoAccess
  ELSE LET isOwner == row.created_by = user
           isShared == IF isOwner THEN FALSE ELSE user \in shares
       IN  IF ~isOwner /\ ~isShared THEN NoAccess ELSE [data |-> TRUE, error |-> "none"]

(* The page is rendered for the session: without the board it redirects,   *)
(* with it it renders the read-only view or the editing view               *)
BoardPage ==
  /\ wrapper = "none"
  /\ LET res == getBoard(authUser, board, board_shares)
         usePublicWrapper == board.is_public /\ authUser = 0
     IN  /\ result' = res
         /\ wrapper' = IF res.error # "none" \/ ~res.data THEN "redirect"
                       ELSE IF usePublicWrapper THEN "public"
                       ELSE "editable"
  /\ UNCHANGED <<authUser, board, board_shares, viewerVars>>
  /\ UNCHANGED <<engineVars, mergeVars, remoteVars, pageVars>>

(* The editing view mounts *)
MountEditable ==
  /\ wrapper = "editable"
  /\ MountEffect

(* The read-only view polls the board *)
PublicPoll ==
  /\ wrapper = "public"
  /\ result' = getBoard(authUser, board, board_shares)
  /\ UNCHANGED <<authUser, board, board_shares, wrapper, viewerVars>>
  /\ UNCHANGED <<engineVars, mergeVars, remoteVars, pageVars>>

(* The owner makes the board public, or private again *)
SetPublic ==
  /\ board.exists
  /\ board' = [board EXCEPT !.is_public = ~@]
  /\ UNCHANGED <<authUser, board_shares, result, wrapper, viewerVars>>
  /\ UNCHANGED <<engineVars, mergeVars, remoteVars, pageVars>>

(* updateBoard(slug, updates), called by saveToDb in the session's editing *)
(* view: the update reaches the row if the policy lets it, and no row      *)
(* comes back as the error 'Board not found'.                              *)
updateBoard(r) ==
  IF boardsUpdatePolicy(authUser, board, board_shares)
  THEN WriteSuccess(r)
  ELSE WriteFail(r)

(* The sessions: nobody or a user, on a board that may not exist *)
Sessions == 0..MaxUsers

Boards ==
  {[exists |-> FALSE, is_public |-> FALSE, created_by |-> 0]}
    \cup [exists : {TRUE}, is_public : BOOLEAN, created_by : 0..MaxUsers]

InitAccess ==
  /\ \E scene \in InitialScenes : Constructed(scene, {}, TRUE, <<>>)
  /\ authUser \in Sessions
  /\ board \in Boards
  /\ board_shares \in SUBSET (1..MaxUsers)
  /\ result = [data |-> FALSE, error |-> "none"]
  /\ wrapper = "none"
  /\ ViewerIdle
  /\ limits = Limits(MaxLifeEvents, MaxFailures, 0)

NextAccess ==
  \/ BoardPage
  \/ MountEditable
  \/ PublicPoll
  \/ SetPublic
  \/ excalidrawAPI
  \/ AddElement
  \/ DebounceFire
  \/ \E t \in backoffTimers : BackoffFire(t)
  \/ \E r \in inflight : updateBoard(r)
  \/ ThrottleElapse
  \/ Tick

SpecAccess == InitAccess /\ [][NextAccess]_vars

-----------------------------------------------------------------------------
(* PublicExcalidrawWrapper: the read-only view of a public board *)

POLL_INTERVAL_MS == 60000
InitialPollDelayMs == 5000
MaxPolls == 3

(* mergeElements, localElements.forEach: a local element that has a remote *)
(* counterpart is replaced by it, whatever the versions                    *)
RECURSIVE mergeElementsLocalPass(_, _, _)
mergeElementsLocalPass(localElements, remoteElements, deleted) ==
  IF localElements = <<>>
  THEN <<>>
  ELSE LET localEl == Head(localElements)
           inMap == localEl.id \in Ids(remoteElements) \ deleted
       IN  IF inMap
           THEN <<RemoteGet(remoteElements, localEl.id)>>
                  \o mergeElementsLocalPass(Tail(localElements), remoteElements,
                                            deleted \cup {localEl.id})
           ELSE <<localEl>> \o mergeElementsLocalPass(Tail(localElements), remoteElements, deleted)

mergeElements(localElements, remoteElements) ==
  mergeElementsLocalPass(localElements, remoteElements, {})
    \o RemoteRest(remoteElements, 1, Ids(localElements))

(* The canvas of the read-only view hands over its API.  The canvas is    *)
(* loaded dynamically: it may render with the view or after the view's     *)
(* effects have run.                                                       *)
PublicExcalidrawAPI ==
  /\ publicView \in {"rendered", "mounted"}
  /\ ~publicExcalidrawRef
  /\ publicExcalidrawRef' = TRUE
  /\ UNCHANGED <<publicView, publicScene, pollTimers, polls, sinceMount, nPolls>>
  /\ UNCHANGED <<authUser, board, board_shares, result, wrapper>>
  /\ UNCHANGED <<engineVars, mergeVars, remoteVars, pageVars>>

(* The effects of the read-only view run after its first render; the data *)
(* is valid, hasError is false.  The poll effect returns at once when the  *)
(* canvas API is not there; its dependencies are boardSlug and hasError.   *)
PollEffect ==
  /\ publicView = "rendered"
  /\ publicView' = "mounted"
  /\ pollTimers' = IF ~publicExcalidrawRef THEN NoPollTimers
                   ELSE [initialTimeout |-> InitialPollDelayMs, interval |-> POLL_INTERVAL_MS]
  /\ sinceMount' = 0
  /\ UNCHANGED <<publicExcalidrawRef, publicScene, polls, nPolls>>
  /\ UNCHANGED <<authUser, board, board_shares, result, wrapper>>
  /\ UNCHANGED <<engineVars, mergeVars, remoteVars, pageVars>>

(* pollForUpdates up to its await: getBoard is called *)
pollForUpdates ==
  /\ polls' = polls \cup {[res |-> getBoard(authUser, board, board_shares),
                           elements |-> db.elements, n |-> nPolls + 1]}
  /\ nPolls' = nPolls + 1

InitialTimeoutFire ==
  /\ pollTimers.initialTimeout = 0
  /\ pollTimers' = [pollTimers EXCEPT !.initialTimeout = NoDelay]
  /\ pollForUpdates
  /\ UNCHANGED <<publicView, publicExcalidrawRef, publicScene, sinceMount>>
  /\ UNCHANGED <<authUser, board, board_shares, result, wrapper>>
  /\ UNCHANGED <<engineVars, mergeVars, remoteVars, pageVars>>

IntervalFire ==
  /\ pollTimers.interval = 0
  /\ pollTimers' = [pollTimers EXCEPT !.interval = POLL_INTERVAL_MS]
  /\ pollForUpdates
  /\ UNCHANGED <<publicView, publicExcalidrawRef, publicScene, sinceMount>>
  /\ UNCHANGED <<authUser, board, board_shares, result, wrapper>>
  /\ UNCHANGED <<engineVars, mergeVars, remoteVars, pageVars>>

(* pollForUpdates after its await.  A failed fetch is dropped; the merged *)
(* scene is applied if it differs from the canvas's.  After the unmount    *)
(* there is no canvas left to show it.                                     *)
PollResponse(r) ==
  /\ polls' = polls \ {r}
  /\ LET mergedElements == mergeElements(publicScene, r.elements)
     IN  publicScene' = IF r.res.error # "none" \/ ~r.res.data \/ publicView # "mounted"
                        THEN publicScene
                        ELSE IF mergedElements # publicScene THEN mergedElements
                        ELSE publicScene
  /\ UNCHANGED <<publicView, publicExcalidrawRef, pollTimers, sinceMount, nPolls>>
  /\ UNCHANGED <<authUser, board, board_shares, result, wrapper>>
  /\ UNCHANGED <<engineVars, mergeVars, remoteVars, pageVars>>

(* The effect's cleanup: clearTimeout, clearInterval *)
PublicUnmount ==
  /\ publicView = "mounted"
  /\ publicView' = "unmounted"
  /\ pollTimers' = NoPollTimers
  /\ UNCHANGED <<publicExcalidrawRef, publicScene, polls, sinceMount, nPolls>>
  /\ UNCHANGED <<authUser, board, board_shares, result, wrapper>>
  /\ UNCHANGED <<engineVars, mergeVars, remoteVars, pageVars>>

(* InitialPollDelayMs of time pass; both delays are multiples of it.  A    *)
(* due timer fires and a fetch returns before more time passes.            *)
PublicTick ==
  /\ publicView \in {"mounted", "unmounted"}
  /\ pollTimers.initialTimeout # 0
  /\ pollTimers.interval # 0
  /\ polls = {}
  /\ sinceMount < InitialPollDelayMs + (MaxPolls - 1) * POLL_INTERVAL_MS
  /\ sinceMount' = sinceMount + InitialPollDelayMs
  /\ pollTimers' = [t \in DOMAIN pollTimers |->
                      IF pollTimers[t] = NoDelay THEN NoDelay
                      ELSE pollTimers[t] - InitialPollDelayMs]
  /\ UNCHANGED <<publicView, publicExcalidrawRef, publicScene, polls, nPolls>>
  /\ UNCHANGED <<authUser, board, board_shares, result, wrapper>>
  /\ UNCHANGED <<engineVars, mergeVars, remoteVars, pageVars>>

(* An anonymous visitor has opened a public board: BoardPage has rendered *)
(* the read-only view with the stored scene                                *)
InitViewer ==
  /\ \E scene \in InitialScenes : Constructed(scene, {}, TRUE, <<>>)
  /\ limits = Limits(MaxEvents, 0, 0)
  /\ authUser = 0
  /\ board \in {b \in Boards : b.exists /\ b.is_public}
  /\ board_shares = {}
  /\ result = [data |-> TRUE, error |-> "none"]
  /\ wrapper = "public"
  /\ publicView = "rendered"
  /\ publicExcalidrawRef = FALSE
  /\ publicScene = db.elements
  /\ pollTimers = NoPollTimers
  /\ polls = {}
  /\ sinceMount = 0
  /\ nPolls = 0

NextViewer ==
  \/ PublicExcalidrawAPI
  \/ PollEffect
  \/ InitialTimeoutFire
  \/ IntervalFire
  \/ \E r \in polls : PollResponse(r)
  \/ PublicUnmount
  \/ PublicTick
  \/ \E scene \in PeerScenes : PeerWrite(scene)
  \/ SetPublic

SpecViewer == InitViewer /\ [][NextViewer]_vars

-----------------------------------------------------------------------------
(* The change detector as a function of its inputs: mLocal is the new     *)
(* list, mRemote the baseline.                                             *)

(* Lists of at most MaxMergeLen elements with the given versions,          *)
(* contents and tombstone flags                                            *)
DetectLists(vs, xs, ds) ==
  LET elems == {[Elem(id, v, x) EXCEPT !.isDeleted = d] :
                  id \in 1..MaxMergeId, v \in vs, x \in xs, d \in ds}
  IN  UNION {[1..n -> elems] : n \in 0..MaxMergeLen}

InitDetect ==
  /\ EngineInit(<<>>, TRUE)
  /\ limits = Limits(0, 0, 0)
  /\ RemoteInit(TRUE)
  /\ mLocal \in DetectLists({1, MaxMergeVersion}, {0, 1, Unserializable}, BOOLEAN)
  /\ mRemote \in DetectLists({1}, {0}, {FALSE})
  /\ mOut = <<>>
  /\ mPhase = "input"

(* hasElementChanges = elementsChanged(new, baseline) *)
Detect ==
  /\ mPhase = "input"
  /\ mPhase' = IF elementsChanged(mLocal, mRemote) THEN "changed" ELSE "unchanged"
  /\ UNCHANGED <<mLocal, mRemote, mOut, engineVars, remoteVars, pageVars, accessVars>>

SpecDetect == InitDetect /\ [][Detect]_vars

-----------------------------------------------------------------------------
(* Editing with deletions, client online, store succeeding *)

InitDelete ==
  /\ \E scene \in InitialScenes : EngineInit(scene, TRUE)
  /\ limits = Limits(MaxEvents, 0, 0)
  /\ MergeIdle
  /\ RemoteInit(TRUE)

NextDelete ==
  \/ AddElement
  \/ \E i \in 1..Len(elements) : MoveElement(i)
  \/ \E i \in 1..Len(elements) : DeleteElement(i)
  \/ DebounceFire
  \/ \E r \in inflight : WriteSuccess(r)
  \/ BroadcastTimeoutFire
  \/ ThrottleElapse
  \/ Tick

SpecDelete == InitDelete /\ [][NextDelete]_vars

-----------------------------------------------------------------------------
(* The merge as a function of its inputs: a local and a remote list are    *)
(* drawn, the broadcast handler or syncFromDatabase merges them.  The      *)
(* merge never reads an element's content, so the local contents are all   *)
(* 0 and a remote element has the same content as a local one or another.  *)
InitMerge ==
  /\ EngineInit(<<>>, TRUE)
  /\ limits = Limits(0, 0, 0)
  /\ RemoteInit(TRUE)
  /\ mLocal \in MergeLists({0})
  /\ mRemote \in MergeLists({0, 1})
  /\ mOut = <<>>
  /\ mPhase = "input"

Merge ==
  /\ mPhase = "input"
  /\ mOut' = mergeElementsByLastWrite(mLocal, mRemote)
  /\ mPhase' = "merged"
  /\ UNCHANGED <<mLocal, mRemote, engineVars, remoteVars, pageVars, accessVars>>

NextMerge == Merge

SpecMerge == InitMerge /\ [][NextMerge]_vars

-----------------------------------------------------------------------------
(* Properties of the persistence writer and the retry queue *)

(* No timer pending, no store write in flight *)
Quiescent ==
  /\ ~debounce.pending
  /\ backoffTimers = {}
  /\ inflight = {}

(* The client was online and the store accepted every write, all along *)
AlwaysOnlineAndOk ==
  /\ navOnline
  /\ nFail = 0
  /\ offlined = {}
  /\ drains = <<>>

(* C1: after a burst of content changes and a quiet period, client online  *)
(* and store succeeding, the durable record holds the element list of the  *)
(* last change event: the one write made carried the final state.          *)
DebouncedWriteIsFinalState ==
  (Quiescent /\ AlwaysOnlineAndOk /\ nEvents > 0) => db.elements = elements

(* A change event that alters only the view-state *)
ViewOnlyEvent ==
  /\ nEvents' = nEvents + 1
  /\ elements' = elements

(* C2: a view-only change event sends no broadcast, neither schedules nor  *)
(* restarts the debounced save, and leaves the dirty flag alone.           *)
ViewChangeIsInert ==
  [][ViewOnlyEvent =>
       /\ sent' = sent
       /\ broadcastTimeoutRef' = broadcastTimeoutRef
       /\ debounce' = debounce
       /\ isDirty' = isDirty]_vars

(* The payloads a save is still going to write or has queued *)
PendingSeqs ==
  {retryQueueRef[k].seq : k \in 1..Len(retryQueueRef)}
    \cup {r.p.seq : r \in inflight}
    \cup UNION {{r.rest[k].seq : k \in 1..Len(r.rest)} : r \in inflight}
    \cup {t.p.seq : t \in backoffTimers}

WrittenByDrains == UNION {drains[d].wrote : d \in 1..Len(drains)}

(* An offline save leaves its payload at the end of the retry queue *)
OfflineSaveEnqueues ==
  /\ (DebounceFire /\ ~navOnline) =>
       /\ retryQueueRef' # <<>>
       /\ PayloadOf(retryQueueRef'[Len(retryQueueRef')]) = debounce.args
  /\ \A t \in backoffTimers :
       (BackoffFire(t) /\ ~navOnline) =>
         /\ retryQueueRef' # <<>>
         /\ PayloadOf(retryQueueRef'[Len(retryQueueRef')]) = t.p

(* A payload whose save was attempted offline is queued, on its way to the *)
(* store, or written.                                                      *)
OfflineEditNeverLost == offlined \subseteq (PendingSeqs \cup WrittenByDrains)

(* A drain that ran to its end with the client online and the store        *)
(* accepting every write has written every payload it took.                *)
CleanDrainWritesAll ==
  \A d \in 1..Len(drains) :
    (drains[d].done /\ drains[d].clean) =>
      \A k \in 1..Len(drains[d].taken) : drains[d].taken[k] \in drains[d].wrote

(* C3: an edit whose save is attempted offline is never lost: it is in the *)
(* retry queue right after the attempt, and the drain started by the next  *)
(* online event writes it if the store accepts the writes.                 *)
OfflineEditIsWritten ==
  /\ [](OfflineEditNeverLost /\ CleanDrainWritesAll)
  /\ [][OfflineSaveEnqueues]_vars

(* An offline save has been drained to the store after an online event *)
OfflineEditIsWrittenWitness ==
  \E d \in 1..Len(drains) :
    /\ drains[d].done /\ drains[d].clean
    /\ \E k \in 1..Len(drains[d].taken) :
         /\ drains[d].taken[k] \in offlined
         /\ drains[d].taken[k] \in drains[d].wrote
         /\ db.seq = drains[d].taken[k]

(* C4: for one tab, an older payload is never durably written after a      *)
(* newer one.                                                              *)
WritesNeverGoBack == [][db'.seq >= db.seq]_vars

(* C5: while a store write for entry i+1 of a drain is under way, entry i  *)
(* of that drain has no save left: no backoff retry pending or in flight.  *)
DrainAwaitsRetries ==
  \A r \in inflight :
    r.kind = "drain" =>
      /\ \A t \in backoffTimers : ~(t.src.d = r.src.d /\ t.src.i < r.src.i)
      /\ \A r2 \in inflight : ~(r2.src.d = r.src.d /\ r2.src.i < r.src.i)

(* The delays of the retries 1, 2 and 3 *)
RetryDelayMs == <<1000, 2000, 4000>>

(* Every pending retry is retry 1, 2 or 3 of its save, set for 1 s, 2 s    *)
(* or 4 s; no save is tried more than 3 times after its first attempt.     *)
RetriesBounded ==
  /\ \A t \in backoffTimers :
       /\ t.attempt \in 1..3
       /\ t.delay = RetryDelayMs[t.attempt]
       /\ t.remaining <= t.delay
  /\ \A r \in inflight : r.attempt \in 0..3

(* What a failed write leaves behind *)
FailedWriteHandled ==
  \A r \in inflight :
    WriteFail(r) =>
      /\ retryQueueRef' # <<>>
      /\ PayloadOf(retryQueueRef'[Len(retryQueueRef')]) = r.p
      /\ storedQueue' = JSONStringify(retryQueueRef')
      /\ IF r.attempt < 3
         THEN /\ Cardinality(backoffTimers') = Cardinality(backoffTimers) + 1
              /\ \E t \in backoffTimers' \ backoffTimers :
                   /\ t.p = r.p
                   /\ t.attempt = r.attempt + 1
                   /\ t.remaining = RetryDelayMs[r.attempt + 1]
         ELSE /\ backoffTimers' = backoffTimers
              /\ inflight' = inflight \ {r}
              /\ "save-error" \in toasts'
              /\ isDirty'

(* C6: a failed write enqueues the payload and is retried after 1 s, 2 s   *)
(* and 4 s, at most 3 times; past the ceiling nothing more is scheduled,   *)
(* the error notification is shown, dirty is set and the payload is in the *)
(* retry queue.  The attempt number grows with each retry and is bounded,  *)
(* so the chain of one save ends.                                          *)
RetryChainBounded ==
  /\ []RetriesBounded
  /\ [][FailedWriteHandled]_vars

(* A save has failed four times: the chain has ended at the ceiling *)
RetryChainBoundedWitness ==
  /\ "save-error" \in toasts
  /\ isDirty
  /\ backoffTimers = {}
  /\ inflight = {}
  /\ Len(retryQueueRef) = 4
  /\ \A k \in 1..4 : retryQueueRef[k].attempts = IF k < 4 THEN k ELSE 3

(* The state an offline saveToDb(p) leaves *)
OfflineSaveEffect(p) ==
  /\ retryQueueRef' = Append(retryQueueRef,
                             [elements |-> p.elements, appState |-> p.appState,
                              attempts |-> 0, seq |-> p.seq])
  /\ storedQueue' = JSONStringify(retryQueueRef')
  /\ isDirty'
  /\ inflight' = inflight
  /\ db' = db
  /\ lastSavedElementsRef' = lastSavedElementsRef
  /\ isSaving' = isSaving

-----------------------------------------------------------------------------
(* Properties of the merge, under SpecMerge *)

Merged == mPhase = "merged"

Common == {<<i, j>> \in (1..Len(mLocal)) \X (1..Len(mRemote)) : mLocal[i].id = mRemote[j].id}

OutWithId(id) == {k \in 1..Len(mOut) : mOut[k].id = id}

(* C8: for every id present in both inputs the output holds exactly one    *)
(* element with that id, the remote one if and only if its version is      *)
(* strictly greater than the local one's, otherwise the local one; so the  *)
(* output version is the maximum of the two, local kept on a tie.          *)
MergeVersionMonotonic ==
  Merged =>
    \A c \in Common :
      LET l == mLocal[c[1]]
          r == mRemote[c[2]]
      IN  /\ Cardinality(OutWithId(l.id)) = 1
          /\ \A k \in OutWithId(l.id) :
               /\ mOut[k] = IF r.version > l.version THEN r ELSE l
               /\ mOut[k].version = IF r.version > l.version THEN r.version ELSE l.version
               /\ mOut[k].version >= l.version /\ mOut[k].version >= r.version

(* A merge with a tie of different contents and with a newer remote element *)
MergeVersionMonotonicWitness ==
  /\ Merged
  /\ \E c \in Common : /\ mLocal[c[1]].version = mRemote[c[2]].version
                       /\ mLocal[c[1]].x # mRemote[c[2]].x
  /\ \E c \in Common : mRemote[c[2]].version > mLocal[c[1]].version

(* C9: merging a list with itself gives exactly the elements of the list   *)
MergeIdempotent ==
  (Merged /\ mLocal = mRemote) =>
    /\ {mOut[k] : k \in 1..Len(mOut)} = {mLocal[k] : k \in 1..Len(mLocal)}
    /\ Len(mOut) = Len(mLocal)

(* A list of two elements merged with itself *)
MergeIdempotentWitness ==
  /\ Merged
  /\ mLocal = mRemote
  /\ Len(mLocal) = MaxMergeLen
  /\ Len(mOut) = MaxMergeLen

IsRemoteOnly(el) == el.id \notin Ids(mLocal)

(* C10: for inputs with unique ids the output has the union of the ids,    *)
(* each once; a local-only element is kept unchanged, in its place; the    *)
(* remote-only elements follow the local ones, in remote order.            *)
MergeKeepsUnion ==
  (Merged /\ UniqueIds(mLocal) /\ UniqueIds(mRemote)) =>
    /\ Ids(mOut) = Ids(mLocal) \cup Ids(mRemote)
    /\ UniqueIds(mOut)
    /\ Len(mOut) >= Len(mLocal)
    /\ \A i \in 1..Len(mLocal) : mLocal[i].id \notin Ids(mRemote) => mOut[i] = mLocal[i]
    /\ SubSeq(mOut, Len(mLocal) + 1, Len(mOut)) = SelectSeq(mRemote, IsRemoteOnly)

(* A merge of a local list with a local-only element and a remote list     *)
(* with a remote-only element                                              *)
MergeKeepsUnionWitness ==
  /\ Merged
  /\ \E i \in 1..Len(mLocal) : mLocal[i].id \notin Ids(mRemote)
  /\ \E j \in 1..Len(mRemote) : mRemote[j].id \notin Ids(mLocal)
  /\ Len(mOut) > Len(mLocal)

-----------------------------------------------------------------------------
(* Properties of the channel, under SpecRemote *)

(* A status callback *)
StatusStep == nStatus' = nStatus + 1

FirstSubscribeSyncs ==
  [][(StatusStep /\ ~everSubscribed /\ everSubscribed') => nSync' = nSync + 1]_vars

(* The canvas emits the change event of an updateScene, its scene being    *)
(* the merged scene that was applied                                       *)
EchoOfApplied == Echo /\ elements = lastApplied

GuardIsEventuallyCleared == isApplyingRemoteUpdateRef => guardTimers # {}

(* A merged scene is applied: by the scene-update handler, or by the sync  *)
SceneUpdateApplied ==
  \E m \in inbox : OnSceneUpdate(m, FALSE) /\ ~isApplyingRemoteUpdateRef /\ excalidrawRef

SyncApplied == SyncResponse("ok")

(* C15: applying a merge leaves the baseline equal to the merged scene and *)
(* does not clear the dirty flag while a local edit is unsaved, its         *)
(* debounced save still pending.                                           *)
MergeKeepsUnsavedDirty ==
  [][(SceneUpdateApplied \/ SyncApplied)
       => /\ ~elementsChanged(currentElementsRef', lastSavedElementsRef')
          /\ (debounce.pending /\ isDirty) => isDirty']_vars

(* C16: applying a merged scene, from a broadcast or from a re-fetch,      *)
(* leaves the canvas's view-state unchanged.                               *)
ApplyKeepsViewState ==
  [][(SceneUpdateApplied \/ SyncApplied) => viewState' = viewState]_vars

(* A change event with changed content that the change handler takes up *)
ContentChangeHandled ==
  /\ nEvents' = nEvents + 1
  /\ ~isApplyingRemoteUpdateRef
  /\ elementsChanged(elements', lastSavedElementsRef)

OwnBroadcastNotReceived ==
  /\ [](lastRecv # "self" /\ \A m \in inbox : m.from # "self")
  /\ [][sent'.n # sent.n => inbox' = inbox]_vars

(* The tab has broadcast, and has been delivered and has applied a peer's  *)
(* scene-update                                                            *)
OwnBroadcastNotReceivedWitness ==
  /\ sent.n >= 1
  /\ lastRecv = "peer"
  /\ lastApplied \in PeerScenes
  /\ inbox = {}

(* The user identities in the channel's presence registry *)
RegistryUserIds ==
  {Flat(presenceState)[i].user_id : i \in 1..Len(Flat(presenceState))}

(* C20: after the handler of a presence sync the online-users list has one *)
(* entry for every user identity of the registry and no two entries of one *)
(* identity, whatever the number of keys and metas of each.                *)
OnlineUsersAreDistinct ==
  [][PresenceSync =>
       /\ \A i, j \in 1..Len(onlineUsers') :
            onlineUsers'[i].user_id = onlineUsers'[j].user_id => i = j
       /\ {onlineUsers'[i].user_id : i \in 1..Len(onlineUsers')} = RegistryUserIds
       /\ Len(onlineUsers') = Cardinality(RegistryUserIds)]_vars

(* Two tabs of one user are present under two keys, and the list synced    *)
(* from them has the user once, with the meta of the first tab             *)
OnlineUsersAreDistinctWitness ==
  /\ Len(presenceState) = 2
  /\ Cardinality(RegistryUserIds) = 1
  /\ onlineUsers = <<Head(presenceState[1].metas)>>

(* The view was rendered from a stored scene above the element cap *)
OversizedLoad == Len(initialElements) > MAX_ELEMENTS

(* C21: the mount of a view whose initial element list is above            *)
(* MAX_ELEMENTS ends, mounted, in the error state: error flag and message  *)
(* set, no scene kept for the canvas, no canvas.  Start Fresh clears flag  *)
(* and message and leaves the scene empty, and the canvas then shown       *)
(* starts empty.                                                           *)
OversizedLoadEndsInError ==
  [][/\ (MountEffect /\ OversizedLoad) =>
          /\ view' = "mounted"
          /\ hasError'
          /\ errorMessage' # "null"
          /\ ~initialDataRef'.set
          /\ elements' = <<>>
          /\ ~excalidrawRef'
     /\ handleErrorFallback =>
          /\ ~hasError'
          /\ errorMessage' = "null"
          /\ elements' = <<>>
     /\ (excalidrawAPI /\ OversizedLoad) => elements' = <<>>]_vars

(* After Start Fresh on an oversized board the user has drawn an element   *)
(* on the empty canvas, and nothing has been applied from outside          *)
OversizedLoadEndsInErrorWitness ==
  /\ OversizedLoad
  /\ ~hasError
  /\ excalidrawRef
  /\ nEvents = 1
  /\ Len(elements) = 1
  /\ isDirty
  /\ lastApplied = <<>>

(* C22: the scene a re-fetch hands to the canvas passes                    *)
(* validateExcalidrawData: its element list has at most MAX_ELEMENTS       *)
(* elements.                                                               *)
AppliedSceneIsValid ==
  [][SyncApplied => validateExcalidrawData(elements', viewState').valid]_vars

(* C23: once the view is unmounted it calls updateBoard no more, sends no  *)
(* broadcast and applies no scene; the unmount leaves no debounce, throttle *)
(* or retry timer pending and releases the channel.                        *)
UnmountedViewIsSilent ==
  [][/\ view = "unmounted" =>
          /\ inflight' \subseteq inflight
          /\ sent' = sent
          /\ lastApplied' = lastApplied
     /\ Unmount =>
          /\ ~debounce'.pending
          /\ ~broadcastTimeoutRef'
          /\ backoffTimers' = {}
          /\ ~channelRef']_vars

(* The seq numbers of a queue's entries, in order *)
SeqsOf(queue) == [k \in 1..Len(queue) |-> queue[k].seq]

DrainsStartOnReconnectAndStartup ==
  [][/\ (handleOnline /\ retryQueueRef # <<>>) =>
          /\ Len(drains') = Len(drains) + 1
          /\ drains'[Len(drains')].taken = SeqsOf(retryQueueRef)
     /\ (MountEffect /\ navOnline /\ storedQueue # <<>>) => Len(drains') = 1
     /\ (MountEffect /\ ~navOnline) =>
          /\ drains' = drains
          /\ inflight' = inflight
          /\ JSONStringify(retryQueueRef') = storedQueue
          /\ storedQueue' = storedQueue
     /\ Len(drains') > Len(drains) => navOnline' /\ (MountEffect \/ handleOnline)
     /\ ~navOnline' => inflight' \subseteq inflight]_vars

(* The view mounted offline, a save was queued behind the restored         *)
(* entries, and the drain started on reconnection took the three           *)
DrainsStartOnReconnectAndStartupWitness ==
  /\ Len(drains) = 1
  /\ drains[1].taken = <<-2, -1, 1>>
  /\ navOnline
  /\ inflight # {}

(* C26: when updateBoard succeeds the baseline becomes a copy of the       *)
(* elements written and the retry queue keeps its entries; for a write     *)
(* that no drain goes on from, isSaving and dirty are cleared.  (After a   *)
(* drain's write the loop takes its next entry in the same step: that      *)
(* entry's saveToDb sets isSaving, or queues the entry if offline.)        *)
SuccessSetsBaselineOnly ==
  [][\A r \in inflight :
       WriteSuccess(r) =>
         /\ lastSavedElementsRef' = DeepCopy(r.p.elements)
         /\ db'.elements = r.p.elements
         /\ (r.kind # "drain" \/ navOnline) =>
              /\ retryQueueRef' = retryQueueRef
              /\ storedQueue' = JSONStringify(retryQueueRef)
              /\ ~isDirty'
         /\ r.kind # "drain" => ~isSaving']_vars

(* A retried write has succeeded while the queue still holds its entry *)
SuccessSetsBaselineOnlyWitness ==
  /\ db.seq > 0
  /\ \E k \in 1..Len(retryQueueRef) : retryQueueRef[k].seq = db.seq
  /\ lastSavedElementsRef = db.elements
  /\ inflight = {}
  /\ ~isDirty
  /\ ~isSaving

(* C27: a sync whose re-fetch fails changes nothing: the scene and the     *)
(* view-state, the refs, the baseline, the dirty flag and the retry queue  *)
(* stay as they were, the guard and its resets are untouched, the channel  *)
(* keeps its status.                                                       *)
FailedSyncChangesNothing ==
  [][SyncResponse("error") =>
       UNCHANGED <<elements, viewState, currentElementsRef, currentAppStateRef,
                   lastSavedElementsRef, isDirty, retryQueueRef, storedQueue,
                   isApplyingRemoteUpdateRef, guardTimers, echoPending, lastApplied,
                   previousStatusRef, channelRef, db>>]_vars

(* A sync has ended without applying a scene, in a subscribed tab that     *)
(* holds unsaved changes                                                   *)
FailedSyncChangesNothingWitness ==
  /\ nSync > 0
  /\ fetching = 0
  /\ nThrow = 0
  /\ lastApplied = <<>>
  /\ ~isApplyingRemoteUpdateRef
  /\ isDirty
  /\ previousStatusRef = "SUBSCRIBED"
  /\ channelRef

(* The session is a stranger's on a public board: nobody, or a user who is *)
(* neither the board's creator nor one it is shared with                   *)
StrangerOnPublicBoard ==
  /\ board.exists
  /\ board.is_public
  /\ authUser = 0 \/ (authUser # board.created_by /\ authUser \notin board_shares)

(* C28: in a stranger's session on a public board no step calls            *)
(* updateBoard, and the board's record stays as it is.                     *)
PublicBoardIsReadOnly ==
  [][StrangerOnPublicBoard => inflight' \subseteq inflight /\ db' = db]_vars

(* C29: getBoard returns the board exactly when the board exists and is    *)
(* public, or the caller is signed in and is its creator or has a share    *)
(* row; otherwise it returns an error and no data.                         *)
GetBoardChecksAccess ==
  [][(BoardPage \/ PublicPoll) =>
       /\ result'.data <=>
            /\ board.exists
            /\ \/ board.is_public
               \/ authUser # 0 /\ (authUser = board.created_by \/ authUser \in board_shares)
       /\ result'.data <=> result'.error = "none"]_vars

(* A user a private board is shared with was handed the board and edits    *)
(* it, while the read of a stranger would be refused                       *)
GetBoardChecksAccessWitness ==
  /\ ~board.is_public
  /\ authUser # 0
  /\ authUser # board.created_by
  /\ authUser \in board_shares
  /\ result.data
  /\ wrapper = "editable"
  /\ db.seq = 1
  /\ \E u \in Sessions : ~getBoard(u, board, board_shares).data

(* This tab has nothing left to do: no timer pending, no call in flight,   *)
(* no broadcast undelivered                                                *)
TabQuiescent ==
  /\ ~debounce.pending
  /\ backoffTimers = {}
  /\ inflight = {}
  /\ ~broadcastTimeoutRef
  /\ guardTimers = {}
  /\ ~echoPending
  /\ fetching = 0
  /\ inbox = {}

(* The other tab added its element to the initial scene, broadcast it and  *)
(* saved it; its save is the later one                                     *)
PeerTabSaved ==
  /\ db.elements = <<Elem(1, 1, 0), Elem(0, 1, 1)>>
  /\ db.app_state = PeerAppState

(* This tab, subscribed, added its element to the initial scene, and its   *)
(* save has succeeded                                                      *)
ThisTabSaved ==
  /\ previousStatusRef = "SUBSCRIBED"
  /\ nStatus = 1
  /\ nEvents = 1
  /\ \E i \in 1..Len(elements) : elements[i] = Elem(2, 1, 0)
  /\ db.seq = 1

(* The other tab's broadcast has been handled here and its element is in   *)
(* this tab's scene                                                        *)
BroadcastDelivered ==
  /\ lastRecv = "peer"
  /\ nPeer = 2
  /\ nThrow = 0
  /\ \E i \in 1..Len(elements) : elements[i] = Elem(0, 1, 1)

(* C30: two tabs have each added an element, the broadcasts are delivered, *)
(* both saves have succeeded; once this tab is quiescent and not dirty,    *)
(* every element of its scene is in the board's record.                    *)
TabsConvergeOnRecord ==
  (/\ TabQuiescent
   /\ ~isDirty
   /\ ThisTabSaved
   /\ PeerTabSaved
   /\ BroadcastDelivered)
    => Ids(elements) \subseteq Ids(db.elements)

(* C31: a scene-update delivered to a tab whose canvas is ready is merged  *)
(* into the tab's scene: afterwards every element of the payload is in the *)
(* scene, at a version not lower than the payload's.                       *)
DeliveredBroadcastIsMerged ==
  [][\A m \in inbox :
       (OnSceneUpdate(m, FALSE) /\ excalidrawRef) =>
         \A i \in 1..Len(m.elements) :
           \E j \in 1..Len(elements') :
             /\ elements'[j].id = m.elements[i].id
             /\ elements'[j].version >= m.elements[i].version]_vars

(* C32: when the debounce timer fires, the elements handed to updateBoard  *)
(* are the canvas's elements of that moment, those merged in from a        *)
(* broadcast or a re-fetch since the edit included.                        *)
DebouncedWriteIsCurrentScene ==
  [][DebounceFire => \A r \in inflight' \ inflight : r.p.elements = elements]_vars

(* The payloads of the entries in the persisted queue *)
PersistedPayloads ==
  LET queue == JSONParse(storedQueue)
  IN  {PayloadOf(queue[k]) : k \in 1..Len(queue)}

(* C33: during a drain every entry taken from the queue whose payload is   *)
(* not written yet -- the one whose write is under way, and those behind   *)
(* it -- is still in the persisted queue.                                  *)
DrainedEntriesStayPersisted ==
  \A r \in inflight :
    r.kind = "drain" =>
      /\ r.p \in PersistedPayloads
      /\ \A k \in 1..Len(r.rest) : PayloadOf(r.rest[k]) \in PersistedPayloads

(* C34: whenever the dirty flag is false, no debounced save is pending and *)
(* the canvas's elements equal the baseline under the change detector's    *)
(* projection.                                                             *)
NotDirtyMeansSaved ==
  ~isDirty => /\ ~debounce.pending
              /\ ~elementsChanged(elements, lastSavedElementsRef)

(* C35: isSaving is true in every state in which an updateBoard call is in *)
(* flight.                                                                 *)
SavingWhileWriteInFlight == inflight # {} => isSaving

(* C36: elementsChanged is true when the lengths differ; for equal lengths *)
(* it is true exactly when the projections differ at some position, or     *)
(* when serializing them fails; the element list and the baseline are its  *)
(* only inputs.                                                            *)
ChangeDetectorCompares ==
  mPhase \in {"changed", "unchanged"} =>
    (mPhase = "changed") <=>
      \/ Len(mLocal) # Len(mRemote)
      \/ /\ Len(mLocal) = Len(mRemote)
         /\ \/ \E i \in 1..Len(mLocal) :
                 \/ mLocal[i].id # mRemote[i].id
                 \/ mLocal[i].x # mRemote[i].x
            \/ \E i \in 1..Len(mLocal) : Unserializable \in {mLocal[i].x, mRemote[i].x}

(* Two lists of two elements that differ in a version and a tombstone      *)
(* only were compared and found unchanged                                  *)
ChangeDetectorComparesWitness ==
  /\ mPhase = "unchanged"
  /\ Len(mLocal) = 2
  /\ mLocal # mRemote

(* C37: an edit that only marks an element deleted is handled as a        *)
(* content change: the tab is dirty, the debounced save is scheduled with  *)
(* the scene of the edit, and the scene is broadcast or the throttled      *)
(* broadcast is pending.                                                   *)
DeletionIsContentChange ==
  [][\A i \in 1..Len(elements) :
       DeleteElement(i) =>
         /\ isDirty'
         /\ debounce'.pending
         /\ debounce'.args.elements = elements'
         /\ sent'.n = sent.n + 1 \/ broadcastTimeoutRef']_vars

(* C38: for two lists with unique ids in which elements of the same id   *)
(* and version are identical, merging in either order gives the same set   *)
(* of elements, each id once; the result is a function of the two lists.   *)
SameVersionSameContent(A, B) ==
  \A i \in 1..Len(A), j \in 1..Len(B) :
    (A[i].id = B[j].id /\ A[i].version = B[j].version) => A[i] = B[j]

Range(els) == {els[i] : i \in 1..Len(els)}

MergeCommutesAsSet ==
  (mPhase = "merged" /\ UniqueIds(mLocal) /\ UniqueIds(mRemote)
     /\ SameVersionSameContent(mLocal, mRemote)) =>
    /\ mOut = mergeElementsByLastWrite(mLocal, mRemote)
    /\ Range(mOut) = Range(mergeElementsByLastWrite(mRemote, mLocal))
    /\ UniqueIds(mOut)
    /\ UniqueIds(mergeElementsByLastWrite(mRemote, mLocal))

MergeCommutesAsSetWitness ==
  /\ mPhase = "merged"
  /\ SameVersionSameContent(mLocal, mRemote)
  /\ \E i \in 1..Len(mLocal), j \in 1..Len(mRemote) :
       /\ mLocal[i].id = mRemote[j].id
       /\ mLocal[i].version # mRemote[j].version
       /\ mLocal[i].x # mRemote[j].x
  /\ mOut # mergeElementsByLastWrite(mRemote, mLocal)

(* C39: every entry of the retry queue, in memory and persisted, has     *)
(* between 0 and MAX_RETRIES attempts; when the write of a drained entry   *)
(* fails the entry is appended to the queue with at least the attempts it  *)
(* was drained with, and the drain passes the next entry to saveToDb.      *)
AttemptsInRange ==
  /\ \A k \in 1..Len(retryQueueRef) : retryQueueRef[k].attempts \in 0..MAX_RETRIES
  /\ LET queue == JSONParse(storedQueue)
     IN  \A k \in 1..Len(queue) : queue[k].attempts \in 0..MAX_RETRIES

FailedDrainEntryRequeued(r) ==
  /\ Len(retryQueueRef') > Len(retryQueueRef)
  /\ LET item == retryQueueRef'[Len(retryQueueRef) + 1]
     IN  /\ PayloadOf(item) = r.p
         /\ item.attempts >= r.attempt
  /\ storedQueue' # storedQueue => JSONParse(storedQueue') = retryQueueRef'

DrainGoesOn(r) ==
  r.rest # <<>> =>
    LET next == Head(r.rest)
    IN  IF navOnline
        THEN \E r2 \in inflight' \ inflight :
               /\ r2.kind = "drain"
               /\ r2.p = PayloadOf(next)
               /\ r2.attempt = next.attempts
               /\ r2.rest = Tail(r.rest)
        ELSE \A k \in 1..Len(r.rest) :
               \E j \in 1..Len(retryQueueRef') : PayloadOf(retryQueueRef'[j]) = PayloadOf(r.rest[k])

FailedDrainKeepsGoing ==
  /\ [](AttemptsInRange)
  /\ [][\A r \in inflight :
          (r.kind = "drain" /\ WriteFail(r)) =>
            /\ FailedDrainEntryRequeued(r)
            /\ DrainGoesOn(r)]_vars

FailedDrainKeepsGoingWitness ==
  /\ \E k \in 1..Len(retryQueueRef) :
       /\ retryQueueRef[k].attempts = MAX_RETRIES
       /\ PayloadOf(retryQueueRef[k]) = PayloadOf(CeilingItems[1])
  /\ \E r \in inflight :
       /\ r.kind = "drain"
       /\ r.p = PayloadOf(CeilingItems[2])
  /\ nFail = 1

(* C40: while the read-only view of a valid public board is mounted it   *)
(* has fetched the board once when more than 5 s have passed since the     *)
(* mount and once more for every 60 s passed; a fetched board is merged    *)
(* into the canvas's scene; after the unmount no fetch is made.            *)
ViewerPollsOnSchedule ==
  /\ [](publicView = "mounted" =>
          nPolls >= (IF sinceMount > InitialPollDelayMs THEN 1 ELSE 0)
                      + (IF sinceMount > 0 THEN (sinceMount - 1) \div POLL_INTERVAL_MS ELSE 0))
  /\ [][\A r \in polls :
          (PollResponse(r) /\ publicView = "mounted" /\ r.res.data /\ r.res.error = "none") =>
            publicScene' = mergeElements(publicScene, r.elements)]_vars
  /\ [][publicView = "unmounted" => nPolls' = nPolls]_vars

====
